---- MODULE Spec2Model ----
(***************************************************************************)
(* State-machine model of the voice assistant in src/ai_necklace.py:       *)
(* the foreground loop (capture -> transcribe -> converse -> speak), the   *)
(* background alarm thread (check_alarms_and_notify), the alarm store,     *)
(* the tool dispatcher and the conversation history.                       *)
(*                                                                         *)
(* Seven specifications share the variables:                               *)
(*   Spec        foreground thread || alarm thread || wall clock || signal *)
(*   SpecConv    get_ai_response over many utterances                      *)
(*   SpecAlarm   alarm_set / alarm_delete on arbitrary parameters          *)
(*   SpecTool    execute_tool with every outcome of its collaborators      *)
(*   SpecFair    Spec with one alarm and fair scheduling of both threads   *)
(*   SpecGmail   the foreground thread of src/ai_necklace_gmail.py         *)
(*   SpecExtract get_ai_response on the text of the reply                  *)
(***************************************************************************)
EXTENDS Integers, Sequences, FiniteSets, TLC

(***************************************************************************)
(* Program constants.                                                      *)
(***************************************************************************)
\* record_audio_while_pressed: "if len(frames) < 5: return None"
MinChunks == 5
\* get_ai_response: "if len(conversation_history) > 10"
HistoryCap == 10

(***************************************************************************)
(* Bounds of the model.  The chunk counts of the program (1291 chunks of   *)
(* hold-to-talk, 215 chunks of auto capture, 64 chunks of silence, 60 s of *)
(* wall-clock timeout) are scaled down, keeping their order:               *)
(*   MinChunks <= SilenceChunksThreshold + 2 <= AutoMaxChunks              *)
(*   MinChunks <= HoldMaxChunks <= RecordingTimeout                        *)
(***************************************************************************)
HoldMaxChunks == 5
RecordingTimeout == 5
AutoMaxChunks == 7
SilenceChunksThreshold == 4
PlayChunks == 1
MaxDay == 2
MaxSpecTurns == 1
MaxConvTurns == 12
MaxToolTurns == 2
MaxAlarmTurns == 3

(***************************************************************************)
(* Text.  A string of the program is a sequence of one-character strings,  *)
(* so that parsing and formatting are computed and not assumed.            *)
(***************************************************************************)
DigitChars == <<"0", "1", "2", "3", "4", "5", "6", "7", "8", "9">>

IsDigit(c) == \E i \in 1..10 : DigitChars[i] = c

DigitVal(c) == (CHOOSE i \in 1..10 : DigitChars[i] = c) - 1

\* datetime.strftime("%H:%M"): two zero-padded fields
Fmt2(n) == <<DigitChars[(n \div 10) + 1], DigitChars[(n % 10) + 1]>>

strftime(hm) == Fmt2(hm[1]) \o <<":">> \o Fmt2(hm[2])

(***************************************************************************)
(* The wall clock.  A day of the model visits the minutes of DayMinutes in *)
(* order and then starts the next day; the last entry stands for the       *)
(* minutes in which no alarm of the model is due.                          *)
(***************************************************************************)
DayMinutes == << <<7, 0>>, <<7, 1>>, <<12, 30>> >>

Instants == [day : 1..MaxDay, idx : 1..Len(DayMinutes)]

HM(t) == DayMinutes[t.idx]

VARIABLES
    \* process-wide globals of ai_necklace.py
    running,              \* "running": the keep-running flag
    is_recording,         \* "is_recording"
    record_lock,          \* "record_lock": "free" or the thread holding it
    use_button,           \* CONFIG["use_button"] and button
    alarms,               \* "alarms": sequence of alarm records
    alarm_next_id,        \* "alarm_next_id"
    alarm_file,           \* the durable record written by save_alarms
    conversation_history, \* "conversation_history"
    last_email_list,      \* "last_email_list"
    gmail_service,        \* "gmail_service": TRUE when init_gmail succeeded
    \* environment
    clock,                \* the wall clock, an element of Instants
    button_pressed,       \* button.is_pressed
    out_stream,           \* threads holding an open output stream
    \* foreground thread
    fg_pc,                \* position of the main thread
    frames,               \* len(frames) of the running capture
    elapsed,              \* iterations of the hold-to-talk loop so far
    has_sound,            \* record_audio_auto: has_sound
    silent_chunks,        \* record_audio_auto: silent_chunks
    fg_left,              \* chunks still to be written by play_audio
    tool_call,            \* get_ai_response: the extracted tool_call
    turn_no,              \* utterances handed to get_ai_response so far
    \* alarm thread
    al_pc,                \* position of the alarm thread
    al_now,               \* "now" read at the top of the tick
    al_idx,               \* position of "for alarm in alarms"
    al_alarm,             \* the loop variable "alarm"
    al_left,              \* chunks still to be written by play_audio
    last_triggered,       \* "last_triggered": set of <<alarm id, HH:MM>>
    ticked,               \* a tick has begun in the current minute
    \* history variables (observations, not program state)
    fired_ever,           \* ids that have fired
    refired,              \* ids that have fired in two different minutes
    double_fire,          \* an alarm fired twice at ticks of one minute
    fired_tick,           \* ids fired at ticks of the instant al_now
    skipped,              \* ids skipped (recording) at ticks of al_now
    spoken,               \* ids played at ticks of al_now
    assigned,             \* ids alarm_set has given out in this run
    last_call             \* the last execute_tool call and its result

vars == <<running, is_recording, record_lock, use_button, gmail_service,
          alarms,
          alarm_next_id, alarm_file, conversation_history, last_email_list,
          clock, button_pressed, out_stream, fg_pc, frames, elapsed,
          has_sound, silent_chunks, fg_left, tool_call, turn_no, al_pc,
          al_now, al_idx, al_alarm, al_left, last_triggered, ticked, fired_ever, refired, double_fire,
          fired_tick, skipped, spoken, assigned, last_call>>

storeVars == <<alarms, alarm_next_id, alarm_file, assigned>>
convVars == <<conversation_history, last_email_list, tool_call, turn_no>>
envVars == <<clock, button_pressed>>
recVars == <<frames, elapsed, has_sound, silent_chunks>>
alarmThreadVars == <<al_pc, al_now, al_idx, al_alarm, al_left,
                     last_triggered, fired_ever, refired, double_fire,
                     fired_tick,
                     skipped, spoken>>


(***************************************************************************)
(* Alarms.  An alarm is the dict built by alarm_set; label, message and    *)
(* created_at never influence control flow and are left out.               *)
(***************************************************************************)
T0700 == <<"0", "7", ":", "0", "0">>
T0701 == <<"0", "7", ":", "0", "1">>

Alarm(i, t, e) == [id |-> i, time |-> t, enabled |-> e]

NoAlarm == Alarm(0, <<>>, FALSE)

Store(as, n) == [alarms |-> as, next_id |-> n]

\* the durable records that load_alarms may find at startup
LoadedStores ==
    { Store(<<>>, 1),
      Store(<<Alarm(1, T0700, TRUE)>>, 2),
      Store(<<Alarm(1, T0700, TRUE), Alarm(2, T0700, TRUE)>>, 3),
      Store(<<Alarm(2, T0701, FALSE), Alarm(3, T0700, TRUE)>>, 4) }

NoCall == [op |-> "none"]

\* tool_call = None
NoTool == [tool |-> "none"]

\* the state after main() has initialised: globals at their module-level
\* values, alarms loaded, alarm thread started, button configured
InitCommon ==
    /\ running = TRUE
    /\ is_recording = FALSE
    /\ record_lock = "free"
    /\ conversation_history = <<>>
    /\ last_email_list = <<>>
    /\ clock = [day |-> 1, idx |-> 1]
    /\ button_pressed = FALSE
    /\ out_stream = {}
    /\ fg_pc = "main"
    /\ frames = 0
    /\ elapsed = 0
    /\ has_sound = FALSE
    /\ silent_chunks = 0
    /\ fg_left = 0
    /\ tool_call = NoTool
    /\ turn_no = 0
    /\ al_pc = "tick"
    /\ al_now = [day |-> 1, idx |-> 1]
    /\ al_idx = 1
    /\ al_alarm = NoAlarm
    /\ al_left = 0
    /\ last_triggered = {}
    /\ ticked = FALSE
    /\ fired_ever = {}
    /\ refired = {}
    /\ double_fire = FALSE
    /\ fired_tick = {}
    /\ skipped = {}
    /\ spoken = {}
    /\ assigned = {}
    /\ last_call = NoCall

Init ==
    /\ InitCommon
    /\ use_button \in BOOLEAN
    /\ gmail_service = TRUE
    /\ \E st \in LoadedStores :
          /\ alarms = st.alarms
          /\ alarm_next_id = st.next_id
          /\ alarm_file = st

(***************************************************************************)
(* Environment: shutdown signal, button, wall clock.                       *)
(***************************************************************************)
Alive == fg_pc # "terminated"

signal_handler ==
    /\ Alive
    /\ running
    /\ running' = FALSE
    /\ UNCHANGED <<is_recording, record_lock, use_button, gmail_service,
                   storeVars,
                   convVars, envVars, out_stream, fg_pc, recVars, fg_left,
                   alarmThreadVars, ticked, last_call>>

ButtonChange ==
    /\ Alive
    /\ use_button
    /\ button_pressed' = ~button_pressed
    /\ UNCHANGED <<running, is_recording, record_lock, use_button,
                   gmail_service, storeVars,
                   convVars, clock, out_stream, fg_pc, recVars, fg_left,
                   alarmThreadVars, ticked, last_call>>

NextInstant(t) ==
    IF t.idx < Len(DayMinutes)
      THEN [day |-> t.day, idx |-> t.idx + 1]
      ELSE [day |-> t.day + 1, idx |-> 1]

\* A minute of wall-clock time passes.  The alarm thread sleeps 10 s per
\* tick, so a tick begins in every minute as long as the thread runs.
ClockAdvance ==
    /\ Alive
    /\ NextInstant(clock).day <= MaxDay
    /\ al_pc # "stopped" => ticked
    /\ clock' = NextInstant(clock)
    /\ ticked' = FALSE
    /\ UNCHANGED <<running, is_recording, record_lock, use_button,
                   gmail_service, storeVars,
                   convVars, button_pressed, out_stream, fg_pc, recVars,
                   fg_left, alarmThreadVars, last_call>>

(***************************************************************************)
(* Foreground thread: main loop and the two capture policies.              *)
(***************************************************************************)
fgFrame == <<running, use_button, gmail_service, envVars, alarmThreadVars,
            ticked>>

\* main(): "while running:" of either branch, up to the call of
\* process_voice, which selects the capture policy.  A run of the model
\* starts at most maxTurns conversations.
main_loop(maxTurns) ==
    /\ fg_pc = "main"
    /\ IF ~running
         THEN fg_pc' = "cleanup"
         ELSE /\ use_button => button_pressed
              /\ turn_no < maxTurns
              /\ fg_pc' = "rec_open"
    /\ UNCHANGED <<fgFrame, is_recording, record_lock, storeVars, convVars,
                   out_stream, recVars, fg_left, last_call>>

\* audio.open(input=True) of either capture function: the stream opens or
\* the exception travels up to main()
record_open ==
    /\ fg_pc = "rec_open"
    /\ \E ok \in BOOLEAN :
          fg_pc' = IF ~ok THEN "cleanup"
                   ELSE IF use_button THEN "rec_lock" ELSE "auto_loop"
    /\ frames' = 0
    /\ elapsed' = 0
    /\ has_sound' = FALSE
    /\ silent_chunks' = 0
    /\ UNCHANGED <<fgFrame, is_recording, record_lock, storeVars, convVars,
                   out_stream, fg_left, last_call>>

\* record_audio_while_pressed: "with record_lock: is_recording = True"
record_set_flag ==
    /\ fg_pc = "rec_lock"
    /\ record_lock = "free"
    /\ is_recording' = TRUE
    /\ fg_pc' = "rec_loop"
    /\ UNCHANGED <<fgFrame, record_lock, storeVars, convVars, out_stream,
                   recVars, fg_left, last_call>>

\* mutant: the loop does not look at the keep-running flag
HoldBreak_IgnoresRunning ==
    \/ elapsed > RecordingTimeout
    \/ ~button_pressed
    \/ frames >= HoldMaxChunks

\* mutant: the loop does not look at the button
HoldBreak_IgnoresButton ==
    \/ ~running
    \/ elapsed > RecordingTimeout
    \/ frames >= HoldMaxChunks

\* the checks at the top of one iteration of "while True:", in source order
HoldBreak ==
    \/ ~running
    \/ elapsed > RecordingTimeout
    \/ ~button_pressed
    \/ frames >= HoldMaxChunks

\* one iteration of "while True:" of record_audio_while_pressed
record_hold_loop ==
    /\ fg_pc = "rec_loop"
    /\ IF HoldBreak
         THEN /\ fg_pc' = "rec_unlock"
              /\ UNCHANGED <<frames, elapsed>>
         ELSE \E r \in {"read", "wait", "error"} :
                /\ frames' = IF r = "read" THEN frames + 1 ELSE frames
                /\ elapsed' = elapsed + 1
                /\ fg_pc' = IF r = "error" THEN "rec_unlock" ELSE "rec_loop"
    /\ UNCHANGED <<fgFrame, is_recording, record_lock, storeVars, convVars,
                   out_stream, has_sound, silent_chunks, fg_left, last_call>>

\* record_audio_while_pressed: "with record_lock: is_recording = False"
record_clear_flag ==
    /\ fg_pc = "rec_unlock"
    /\ record_lock = "free"
    /\ is_recording' = FALSE
    /\ fg_pc' = "rec_close"
    /\ UNCHANGED <<fgFrame, record_lock, storeVars, convVars, out_stream,
                   recVars, fg_left, last_call>>

\* the value record_audio_while_pressed returns: None or a buffer
HoldResult(n) == IF n < MinChunks THEN "None" ELSE "buffer"

\* record_audio_while_pressed from stream.stop_stream() to its return, and
\* process_voice's "if audio_data is None: return"
record_hold_finish ==
    /\ fg_pc = "rec_close"
    /\ fg_pc' = IF HoldResult(frames) = "None" THEN "main" ELSE "transcribe"
    /\ frames' = 0
    /\ elapsed' = 0
    /\ UNCHANGED <<fgFrame, is_recording, record_lock, storeVars, convVars,
                   out_stream, has_sound, silent_chunks, fg_left, last_call>>

\* mutant: silence ends the capture whether or not speech was heard
SilenceExit_WithoutSpeech(hs, sc) == sc > SilenceChunksThreshold

\* "if has_sound and silent_chunks > silence_chunks_threshold: break"
SilenceExit(hs, sc) == hs /\ sc > SilenceChunksThreshold

\* one iteration of "for i in range(max_chunks):" of record_audio_auto;
\* loud says whether the chunk's mean amplitude exceeds silence_threshold
record_auto_loop ==
    /\ fg_pc = "auto_loop"
    /\ IF frames >= AutoMaxChunks \/ ~running
         THEN /\ fg_pc' = "auto_close"
              /\ UNCHANGED recVars
         ELSE \E r \in {"loud", "quiet", "error"} :
                IF r = "error"
                  THEN /\ fg_pc' = "cleanup"
                       /\ UNCHANGED recVars
                  ELSE /\ frames' = frames + 1
                       /\ has_sound' = (has_sound \/ r = "loud")
                       /\ silent_chunks' =
                            IF r = "loud" THEN 0 ELSE silent_chunks + 1
                       /\ fg_pc' =
                            IF SilenceExit(has_sound', silent_chunks')
                              THEN "auto_close" ELSE "auto_loop"
                       /\ UNCHANGED elapsed
    /\ UNCHANGED <<fgFrame, is_recording, record_lock, storeVars, convVars,
                   out_stream, fg_left, last_call>>

\* the value record_audio_auto returns: None or a buffer
AutoResult(hs) == IF ~hs THEN "None" ELSE "buffer"

\* record_audio_auto from stream.stop_stream() to its return, and
\* process_voice's "if audio_data is None: return"
record_auto_finish ==
    /\ fg_pc = "auto_close"
    /\ fg_pc' = IF AutoResult(has_sound) = "None" THEN "main"
                ELSE "transcribe"
    /\ frames' = 0
    /\ has_sound' = FALSE
    /\ silent_chunks' = 0
    /\ UNCHANGED <<fgFrame, is_recording, record_lock, storeVars, convVars,
                   out_stream, elapsed, fg_left, last_call>>


(***************************************************************************)
(* Alarm store: alarm_set, alarm_list, alarm_delete, save_alarms.          *)
(***************************************************************************)
RECURSIVE StripLeft(_)
StripLeft(s) == IF s # <<>> /\ s[1] = " " THEN StripLeft(Tail(s)) ELSE s

RECURSIVE StripRight(_)
StripRight(s) ==
    IF s # <<>> /\ s[Len(s)] = " "
      THEN StripRight(SubSeq(s, 1, Len(s) - 1)) ELSE s

RECURSIVE DigitsVal(_)
DigitsVal(s) ==
    IF s = <<>> THEN 0
    ELSE 10 * DigitsVal(SubSeq(s, 1, Len(s) - 1)) + DigitVal(s[Len(s)])

\* Python's int(str): surrounding whitespace and one sign are accepted,
\* then at least one digit and nothing else; otherwise ValueError
ParseInt(s) ==
    LET t == StripRight(StripLeft(s))
        signed == t # <<>> /\ t[1] \in {"+", "-"}
        body == IF signed THEN Tail(t) ELSE t
    IN  IF body # <<>> /\ \A i \in 1..Len(body) : IsDigit(body[i])
          THEN [ok |-> TRUE,
                val |-> IF signed /\ t[1] = "-" THEN 0 - DigitsVal(body)
                        ELSE DigitsVal(body)]
          ELSE [ok |-> FALSE, val |-> 0]

\* str.split(':')
RECURSIVE Split(_, _)
Split(s, sep) ==
    IF \E i \in 1..Len(s) : s[i] = sep
      THEN LET k == CHOOSE i \in 1..Len(s) :
                      s[i] = sep /\ \A j \in 1..(i - 1) : s[j] # sep
           IN  <<SubSeq(s, 1, k - 1)>> \o Split(SubSeq(s, k + 1, Len(s)), sep)
      ELSE <<s>>

\* a JSON parameter value as execute_tool receives it from params.get
PNone == [kind |-> "none"]
PStr(s) == [kind |-> "str", s |-> s]
PInt(n) == [kind |-> "int", n |-> n]
\* a JSON number with a fraction, whole + tenths / 10 (a Python float)
PFloat(whole, tenths) == [kind |-> "float", whole |-> whole, tenths |-> tenths]

\* mutant: the range of hour and minute is not checked
ValidateTime_NoRange(time_str) ==
    IF time_str.kind # "str" THEN "format"
    ELSE IF Len(Split(time_str.s, ":")) # 2 THEN "format"
    ELSE IF \A i \in 1..2 : ParseInt(Split(time_str.s, ":")[i]).ok
      THEN "ok" ELSE "format"

\* the validation of alarm_set: "ok", "range" (first return) or "format"
\* (the bare except: split on a non-string, unpacking, int())
ValidateTime(time_str) ==
    IF time_str.kind # "str" THEN "format"
    ELSE LET parts == Split(time_str.s, ":")
         IN  IF Len(parts) # 2 THEN "format"
             ELSE LET hour == ParseInt(parts[1])
                      minute == ParseInt(parts[2])
                  IN  IF ~hour.ok \/ ~minute.ok THEN "format"
                      ELSE IF 0 <= hour.val /\ hour.val <= 23 /\
                              0 <= minute.val /\ minute.val <= 59
                             THEN "ok" ELSE "range"

\* save_alarms: the record is rewritten; a failure is caught and printed.
\* The failure may come before the file is opened for writing (the old
\* record stays) or after open(..., 'w') has truncated it.
SaveOutcomes == {"ok", "fail_before_open", "fail_after_open"}

save_alarms(file, as, n, outcome) ==
    CASE outcome = "ok" -> Store(as, n)
      [] outcome = "fail_before_open" -> file
      [] OTHER -> [alarms |-> <<>>, next_id |-> 0]

\* the result of a tool function: a string (ok says whether it reports
\* success) or an exception leaving the function
\* (dest: the address a message was sent to, "" when nothing was sent)
Str(ok, msg) == [kind |-> "string", ok |-> ok, msg |-> msg, dest |-> ""]
Sent(msg, to) == [kind |-> "string", ok |-> TRUE, msg |-> msg, dest |-> to]
Raise(exc) == [kind |-> "raise", ok |-> FALSE, msg |-> exc, dest |-> ""]

\* what a tool function leaves behind
Effect(res, as, n, file, cache) ==
    [result |-> res, alarms |-> as, next_id |-> n, file |-> file,
     cache |-> cache]

\* mutant: the id is the position in the list
NewAlarmId_Position(as, n) == Len(as) + 1

\* the id alarm_set gives the new alarm: "id": alarm_next_id
NewAlarmId(as, n) == n

alarm_set(time_str, save) ==
    LET v == ValidateTime(time_str)
    IN  IF v = "range"
          THEN Effect(Str(FALSE, "invalid time"), alarms, alarm_next_id,
                      alarm_file, last_email_list)
        ELSE IF v = "format"
          THEN Effect(Str(FALSE, "invalid time format"), alarms,
                      alarm_next_id, alarm_file, last_email_list)
        ELSE LET as == Append(alarms,
                         Alarm(NewAlarmId(alarms, alarm_next_id),
                               time_str.s, TRUE))
                 n == alarm_next_id + 1
             IN  Effect(Str(TRUE, "alarm set"), as, n,
                        save_alarms(alarm_file, as, n, save),
                        last_email_list)

alarm_list ==
    Effect(Str(TRUE, IF alarms = <<>> THEN "no alarms" ELSE "alarm list"),
           alarms, alarm_next_id, alarm_file, last_email_list)

\* int(alarm_id): an int as it is, a string parsed, a float truncated
\* towards zero, anything else TypeError
IntOf(p) ==
    CASE p.kind = "int" -> [ok |-> TRUE, val |-> p.n]
      [] p.kind = "str" -> ParseInt(p.s)
      [] p.kind = "float" -> [ok |-> TRUE, val |-> p.whole]
      [] OTHER -> [ok |-> FALSE, val |-> 0]

RemoveAt(seq, i) == SubSeq(seq, 1, i - 1) \o SubSeq(seq, i + 1, Len(seq))

alarm_delete(alarm_id, save) ==
    LET id == IntOf(alarm_id)
    IN  IF ~id.ok
          THEN Effect(Str(FALSE, "id must be a number"), alarms,
                      alarm_next_id, alarm_file, last_email_list)
        ELSE IF \E i \in 1..Len(alarms) : alarms[i].id = id.val
          THEN LET k == CHOOSE i \in 1..Len(alarms) :
                          /\ alarms[i].id = id.val
                          /\ \A j \in 1..(i - 1) : alarms[j].id # id.val
                   as == RemoveAt(alarms, k)
               IN  Effect(Str(TRUE, "alarm deleted"), as, alarm_next_id,
                          save_alarms(alarm_file, as, alarm_next_id, save),
                          last_email_list)
        ELSE Effect(Str(FALSE, "alarm not found"), alarms, alarm_next_id,
                    alarm_file, last_email_list)


(***************************************************************************)
(* External collaborators: the mail service and the camera.                *)
(***************************************************************************)
\* a From / Reply-To header value: "Name <addr>" (angle), "addr" (bare) or
\* text without an address (noaddr); Absent stands for None
Header(form, addr) == [form |-> form, addr |-> addr]
Absent == Header("absent", "")

M1 == [id |-> <<"m", "1">>, from |-> Header("angle", "alice"),
       reply_to |-> Absent]
M2 == [id |-> <<"m", "2">>, from |-> Header("bare", "bob"),
       reply_to |-> Header("bare", "list")]

\* the messages the mail service holds, in listing order
Mailbox == <<M1, M2>>

\* What the collaborators do during one tool call:
\*   calls_ok  mail-service requests that succeed before one fails
\*   err       the failure: "http" (HttpError) or "other" (any other
\*             exception of the client library or the transport)
\*   n         messages a listing finds
\*   camera    "ok", "nonzero" (exit code), "timeout" (TimeoutExpired),
\*             "notfound" (FileNotFoundError: no rpicam-still)
\*   vision    the image-description chat call succeeds
\*   save      outcome of save_alarms
AllCallsOk == 3

Ext(c, e, n, cam, vis, sv) ==
    [calls_ok |-> c, err |-> e, n |-> n, camera |-> cam, vision |-> vis,
     save |-> sv]

MailFailure(ext, msg) ==
    IF ext.err = "http" THEN Str(FALSE, msg) ELSE Raise("Exception")

NoEffect(res) ==
    Effect(res, alarms, alarm_next_id, alarm_file, last_email_list)

\* extract_email_address: "" stands for None
extract_email_address(h) ==
    IF h.form \in {"angle", "bare"} THEN h.addr ELSE ""

\* the entry gmail_list keeps of a message
EmailInfo(m) == [id |-> m.id, from_email |-> m.from]

RECURSIVE EmailInfos(_)
EmailInfos(ms) ==
    IF ms = <<>> THEN <<>>
    ELSE <<EmailInfo(Head(ms))>> \o EmailInfos(Tail(ms))

gmail_list(ext) ==
    IF ~gmail_service THEN NoEffect(Str(FALSE, "gmail not initialised"))
    ELSE IF ext.calls_ok = 0 THEN NoEffect(MailFailure(ext, "list error"))
    ELSE IF ext.n = 0 THEN NoEffect(Str(TRUE, "no mail"))
    ELSE LET fetched == IF ext.calls_ok - 1 < ext.n
                          THEN ext.calls_ok - 1 ELSE ext.n
             cache == EmailInfos(SubSeq(Mailbox, 1, fetched))
         IN  Effect(IF fetched < ext.n
                      THEN MailFailure(ext, "list error")
                      ELSE Str(TRUE, "mail list"),
                    alarms, alarm_next_id, alarm_file, cache)

\* the message of the mail service with this id, if any
Known(id) == \E i \in 1..Len(Mailbox) : Mailbox[i].id = id
Lookup(id) == Mailbox[CHOOSE i \in 1..Len(Mailbox) : Mailbox[i].id = id]

\* a request for a message id the service does not hold fails as HttpError
gmail_read(message_id, ext) ==
    NoEffect(
      IF ~gmail_service THEN Str(FALSE, "gmail not initialised")
      ELSE IF ~Known(message_id) THEN Str(FALSE, "read error")
      ELSE IF ext.calls_ok = 0 THEN MailFailure(ext, "read error")
      ELSE Str(TRUE, "mail body"))

\* body = "" stands for None: MIMEText(None) raises inside the try, which
\* catches HttpError only
gmail_send(to, body, ext) ==
    NoEffect(
      IF ~gmail_service THEN Str(FALSE, "gmail not initialised")
      ELSE IF body = "" THEN Raise("AttributeError")
      ELSE IF ext.calls_ok = 0 THEN MailFailure(ext, "send error")
      ELSE Sent("mail sent", to))

\* the camera step shared by gmail_reply and gmail_send_photo: the result
\* that ends the function, or "go on"
GoOn == Str(TRUE, "go on")

reply_camera(attach_photo, ext) ==
    IF ~attach_photo \/ ext.camera = "ok" THEN GoOn
    ELSE IF ext.camera = "nonzero" THEN Str(FALSE, "photo failed")
    ELSE IF ext.camera = "timeout" THEN Str(FALSE, "camera timeout")
    ELSE Raise("FileNotFoundError")

\* "to_raw = to_email or headers.get('Reply-To') or headers.get('From')"
gmail_reply(message_id, body, to_email, attach_photo, ext) ==
    NoEffect(
      IF ~gmail_service THEN Str(FALSE, "gmail not initialised")
      ELSE IF reply_camera(attach_photo, ext) # GoOn
        THEN reply_camera(attach_photo, ext)
      ELSE IF ~Known(message_id) THEN Str(FALSE, "reply error")
      ELSE IF ext.calls_ok = 0 THEN MailFailure(ext, "reply error")
      ELSE LET original == Lookup(message_id)
               to_raw == IF to_email # Absent THEN to_email
                         ELSE IF original.reply_to # Absent
                           THEN original.reply_to
                         ELSE original.from
               to == extract_email_address(to_raw)
           IN  IF to = "" THEN Str(FALSE, "no reply address")
               ELSE IF ~attach_photo /\ body = ""
                 THEN Raise("AttributeError")
               ELSE IF ext.calls_ok = 1
                 THEN MailFailure(ext, "reply error")
               ELSE Sent("reply sent", to))

send_photo_camera(take_photo, ext) ==
    IF ~take_photo \/ ext.camera = "ok" THEN GoOn
    ELSE IF ext.camera = "nonzero" THEN Str(FALSE, "photo failed")
    ELSE IF ext.camera = "timeout" THEN Str(FALSE, "camera timeout")
    ELSE Str(FALSE, "camera not found")

\* to = "" stands for None; every exception of the try is caught
gmail_send_photo(to, take_photo, ext) ==
    NoEffect(
      IF ~gmail_service THEN Str(FALSE, "gmail not initialised")
      ELSE IF to = "" /\ last_email_list = <<>>
        THEN Str(FALSE, "no destination")
      ELSE LET dest == IF to # "" THEN to
                       ELSE extract_email_address(
                              last_email_list[1].from_email)
           IN  IF dest = "" THEN Str(FALSE, "no sender address")
               ELSE IF send_photo_camera(take_photo, ext) # GoOn
                 THEN send_photo_camera(take_photo, ext)
               ELSE IF ext.calls_ok = 0 THEN Str(FALSE, "send error")
               ELSE Sent("photo sent", dest))

\* camera_capture and camera_describe: every failure becomes a string
camera_describe(ext) ==
    NoEffect(
      IF ext.camera # "ok" THEN Str(FALSE, "camera error")
      ELSE IF ~ext.vision THEN Str(FALSE, "image analysis error")
      ELSE Str(TRUE, "description"))


(***************************************************************************)
(* ToolDispatcher: execute_tool.                                           *)
(***************************************************************************)
\* A tool call as json.loads returns it.  params_ok = FALSE: the value of
\* "params" is not an object (null, a string, a number), so params.get
\* raises AttributeError.  to = "" and body = "" stand for absent keys.
BaseCall(tool) ==
    [tool |-> tool, params_ok |-> TRUE, message_id |-> PInt(1), to |-> "",
     body |-> "text", attach_photo |-> FALSE, take_photo |-> TRUE,
     time |-> PNone, alarm_id |-> PNone]

\* isinstance(msg_id, int) or (isinstance(msg_id, str) and msg_id.isdigit())
IsIndex(p) ==
    \/ p.kind = "int"
    \/ /\ p.kind = "str"
       /\ p.s # <<>>
       /\ \A i \in 1..Len(p.s) : IsDigit(p.s[i])

\* mutant: the index is used without the "- 1"
IndexOf_ZeroBased(p) ==
    (IF p.kind = "int" THEN p.n ELSE DigitsVal(p.s)) + 1

\* int(msg_id) - 1, as a 1-based position of last_email_list
IndexOf(p) == IF p.kind = "int" THEN p.n ELSE DigitsVal(p.s)

InCache(p) == 1 <= IndexOf(p) /\ IndexOf(p) <= Len(last_email_list)

\* the message id handed on when msg_id is not an index
RawId(p) == IF p.kind = "str" THEN p.s ELSE <<>>

\* mutant: the sender kept in the cache is not handed on
Resolve_NoSender(p) ==
    IF IsIndex(p)
      THEN IF InCache(p)
             THEN [kind |-> "found", id |-> last_email_list[IndexOf(p)].id,
                   to_email |-> Absent]
             ELSE [kind |-> "missing", id |-> <<>>, to_email |-> Absent]
      ELSE [kind |-> "raw", id |-> RawId(p), to_email |-> Absent]

\* what execute_tool makes of params["message_id"]: the id and the to_email
\* it hands to the mail function ("found": through last_email_list, "raw":
\* msg_id as given), or "missing" when the index is outside the list and
\* no mail function is called
Resolve(p) ==
    IF IsIndex(p)
      THEN IF InCache(p)
             THEN LET e == last_email_list[IndexOf(p)]
                  IN  [kind |-> "found", id |-> e.id,
                       to_email |-> e.from_email]
             ELSE [kind |-> "missing", id |-> <<>>, to_email |-> Absent]
      ELSE [kind |-> "raw", id |-> RawId(p), to_email |-> Absent]

\* the resolution made during a call, "none" for the tools without one
Resolved(call) ==
    IF call.params_ok /\ call.tool \in {"gmail_read", "gmail_reply"}
      THEN Resolve(call.message_id)
      ELSE [kind |-> "none", id |-> <<>>, to_email |-> Absent]

execute_tool(call, ext) ==
    IF ~call.params_ok /\ call.tool \notin {"alarm_list", "unknown"}
      THEN NoEffect(Raise("AttributeError"))
    ELSE CASE call.tool = "gmail_list" -> gmail_list(ext)
      [] call.tool = "gmail_read" ->
           LET r == Resolve(call.message_id)
           IN  IF r.kind = "missing"
                 THEN NoEffect(Str(FALSE, "no such message"))
                 ELSE gmail_read(r.id, ext)
      [] call.tool = "gmail_send" -> gmail_send(call.to, call.body, ext)
      [] call.tool = "gmail_reply" ->
           LET r == Resolve(call.message_id)
           IN  IF r.kind = "missing"
                 THEN NoEffect(Str(FALSE, "no such message"))
                 ELSE gmail_reply(r.id, call.body, r.to_email,
                                  call.attach_photo, ext)
      [] call.tool = "alarm_set" -> alarm_set(call.time, ext.save)
      [] call.tool = "alarm_list" -> alarm_list
      [] call.tool = "alarm_delete" -> alarm_delete(call.alarm_id, ext.save)
      [] call.tool = "camera_capture" -> camera_describe(ext)
      [] call.tool = "gmail_send_photo" ->
           gmail_send_photo(call.to, call.take_photo, ext)
      [] OTHER -> NoEffect(Str(FALSE, "unknown tool"))


(***************************************************************************)
(* Foreground thread: transcription, conversation, speech, playback.       *)
(***************************************************************************)
\* mutant: the exception ends the process at once
Uncaught_SkipsCleanup == "terminated"

\* an exception that leaves process_voice ends main()'s loop
Uncaught == "cleanup"

\* process_voice: transcribe_audio and the empty-text check
transcribe ==
    /\ fg_pc = "transcribe"
    /\ \E r \in {"text", "empty", "raise"} :
          fg_pc' = CASE r = "text" -> "converse"
                     [] r = "empty" -> "main"
                     [] OTHER -> Uncaught
    /\ UNCHANGED <<fgFrame, is_recording, record_lock, storeVars, convVars,
                   out_stream, recVars, fg_left, last_call>>

Turn(role, tag, n) == [role |-> role, tag |-> tag, n |-> n]

\* mutant: the cut keeps the oldest turns
Truncate_Oldest(h) ==
    IF Len(h) > HistoryCap THEN SubSeq(h, 1, HistoryCap) ELSE h

\* mutant: the history is never cut
Truncate_Never(h) == h

\* "conversation_history = conversation_history[-10:]" when longer than 10
Truncate(h) ==
    IF Len(h) > HistoryCap
      THEN SubSeq(h, Len(h) - HistoryCap + 1, Len(h)) ELSE h

\* get_ai_response up to the first chat request: the user turn is appended
\* and the history truncated
get_ai_response_begin ==
    /\ fg_pc = "converse"
    /\ turn_no' = turn_no + 1
    /\ conversation_history' =
         Truncate(Append(conversation_history,
                         Turn("user", "utterance", turn_no + 1)))
    /\ fg_pc' = "chat1"
    /\ UNCHANGED <<fgFrame, is_recording, record_lock, storeVars,
                   last_email_list, tool_call, out_stream, recVars, fg_left,
                   last_call>>

\* the first chat-completion call and the extraction of a tool call from
\* its reply: the call raises, the reply is plain text, or the reply
\* embeds one of calls
chat_first(calls) ==
    /\ fg_pc = "chat1"
    /\ \/ /\ fg_pc' = Uncaught
          /\ UNCHANGED <<conversation_history, tool_call>>
       \/ /\ conversation_history' =
               Append(conversation_history,
                      Turn("assistant", "reply", turn_no))
          /\ fg_pc' = "tts"
          /\ UNCHANGED tool_call
       \/ \E c \in calls :
            /\ tool_call' = c
            /\ fg_pc' = "dispatch"
            /\ UNCHANGED conversation_history
    /\ UNCHANGED <<fgFrame, is_recording, record_lock, storeVars,
                   last_email_list, turn_no, out_stream, recVars, fg_left,
                   last_call>>

\* mutant: the reply that asked for the tool is not kept
ToolTurns_ResultOnly(n) == <<Turn("user", "tool_result", n)>>

\* mutant: the tool result is appended as a turn of the assistant
ToolTurns_AssistantResult(n) ==
    <<Turn("assistant", "tool_reply", n), Turn("assistant", "tool_result", n)>>

\* mutant: the tool result is appended before the reply that asked for it
ToolTurns_ResultFirst(n) ==
    <<Turn("user", "tool_result", n), Turn("assistant", "tool_reply", n)>>

\* the two turns appended after execute_tool: the reply that embeds the
\* tool call, and the tool result as a user turn
ToolTurns(n) ==
    <<Turn("assistant", "tool_reply", n), Turn("user", "tool_result", n)>>

\* what the mail service did during a gmail_list call: the requests that
\* succeeded and the messages the query matches (0, 0 for other tools)
Listing(call, ext) ==
    IF call.tool = "gmail_list"
      THEN [calls_ok |-> ext.calls_ok, n |-> ext.n]
      ELSE [calls_ok |-> 0, n |-> 0]

\* "tool_result = execute_tool(tool_call)" and the two appends after it
dispatch(exts) ==
    /\ fg_pc = "dispatch"
    /\ \E ext \in exts :
         LET e == execute_tool(tool_call, ext)
         IN  /\ alarms' = e.alarms
             /\ alarm_next_id' = e.next_id
             /\ alarm_file' = e.file
             /\ assigned' = assigned \cup
                   {e.alarms[i].id : i \in (Len(alarms) + 1)..Len(e.alarms)}
             /\ last_email_list' = e.cache
             /\ last_call' = [op |-> "execute_tool", call |-> tool_call,
                              result |-> e.result,
                              resolved |-> Resolved(tool_call),
                              listing |-> Listing(tool_call, ext)]
             /\ IF e.result.kind = "raise"
                  THEN /\ fg_pc' = Uncaught
                       /\ UNCHANGED conversation_history
                  ELSE /\ fg_pc' = "chat2"
                       /\ conversation_history' =
                            conversation_history \o ToolTurns(turn_no)
    /\ UNCHANGED <<fgFrame, is_recording, record_lock, tool_call, turn_no,
                   out_stream, recVars, fg_left>>

\* the second chat-completion call and the append of its reply
chat_second ==
    /\ fg_pc = "chat2"
    /\ \/ /\ fg_pc' = Uncaught
          /\ UNCHANGED conversation_history
       \/ /\ conversation_history' =
               Append(conversation_history,
                      Turn("assistant", "summary", turn_no))
          /\ fg_pc' = "tts"
    /\ UNCHANGED <<fgFrame, is_recording, record_lock, storeVars,
                   last_email_list, tool_call, turn_no, out_stream, recVars,
                   fg_left, last_call>>

\* process_voice: text_to_speech(response)
text_to_speech ==
    /\ fg_pc = "tts"
    /\ \E ok \in BOOLEAN : fg_pc' = IF ok THEN "play_open" ELSE Uncaught
    /\ UNCHANGED <<fgFrame, is_recording, record_lock, storeVars, convVars,
                   out_stream, recVars, fg_left, last_call>>

\* play_audio of the foreground: audio.open(output=True)
play_open ==
    /\ fg_pc = "play_open"
    /\ \E ok \in BOOLEAN :
         IF ok
           THEN /\ out_stream' = out_stream \cup {"fg"}
                /\ fg_left' = PlayChunks
                /\ fg_pc' = "play"
           ELSE /\ fg_pc' = Uncaught
                /\ UNCHANGED <<out_stream, fg_left>>
    /\ UNCHANGED <<fgFrame, is_recording, record_lock, storeVars, convVars,
                   recVars, last_call>>

\* play_audio of the foreground: one iteration of "while data and running"
\* or, after the loop, stop_stream and close
play_write ==
    /\ fg_pc = "play"
    /\ IF fg_left > 0 /\ running
         THEN /\ fg_left' = fg_left - 1
              /\ UNCHANGED <<fg_pc, out_stream>>
         ELSE /\ out_stream' = out_stream \ {"fg"}
              /\ fg_pc' = "main"
              /\ fg_left' = 0
    /\ UNCHANGED <<fgFrame, is_recording, record_lock, storeVars, convVars,
                   recVars, last_call>>

\* main(): "finally: audio.terminate()"; the daemon alarm thread ends with
\* the process
cleanup ==
    /\ fg_pc = "cleanup"
    /\ fg_pc' = "terminated"
    /\ out_stream' = {}
    /\ UNCHANGED <<fgFrame, is_recording, record_lock, storeVars, convVars,
                   recVars, fg_left, last_call>>

(***************************************************************************)
(* Alarm thread: check_alarms_and_notify.                                  *)
(***************************************************************************)
alFrame == <<running, use_button, gmail_service, is_recording, storeVars,
             convVars, envVars, fg_pc, recVars, fg_left, last_call>>

\* the dedup key f"{alarm_id}_{current_time}"
TriggerKey(alarm, now) == <<alarm.id, strftime(HM(now))>>

\* "while running:" and "now = datetime.now()"
alarm_tick ==
    /\ Alive
    /\ al_pc = "tick"
    /\ IF running
         THEN /\ al_now' = clock
              /\ al_idx' = 1
              /\ al_pc' = "loop"
              /\ ticked' = TRUE
              /\ IF clock = al_now
                   THEN UNCHANGED <<fired_tick, skipped, spoken>>
                   ELSE /\ fired_tick' = {}
                        /\ skipped' = {}
                        /\ spoken' = {}
         ELSE /\ al_pc' = "stopped"
              /\ UNCHANGED <<al_now, al_idx, ticked, fired_tick, skipped,
                             spoken>>
    /\ UNCHANGED <<alFrame, record_lock, out_stream, al_alarm, al_left,
                   last_triggered, fired_ever, refired, double_fire>>

\* mutant: the dedup key is not consulted
Due_NoDedup(alarm, now, triggered) ==
    /\ alarm.enabled
    /\ alarm.time = strftime(HM(now))

\* the alarm fires at this tick: enabled, not yet triggered in this minute,
\* and its time equals the current HH:MM
Due(alarm, now, triggered) ==
    /\ alarm.enabled
    /\ TriggerKey(alarm, now) \notin triggered
    /\ alarm.time = strftime(HM(now))

\* mutant: the key is not recorded
MarkTriggered_Never(triggered, key) == triggered

\* "last_triggered[trigger_key] = True"
MarkTriggered(triggered, key) == triggered \cup {key}

\* one iteration of "for alarm in alarms:" up to "with record_lock:"
alarm_loop ==
    /\ Alive
    /\ al_pc = "loop"
    /\ IF al_idx > Len(alarms)
         THEN /\ al_pc' = "cleanup"
              /\ UNCHANGED <<al_idx, al_alarm, last_triggered, fired_ever,
                             refired, double_fire, fired_tick>>
         ELSE LET alarm == alarms[al_idx]
              IN  IF Due(alarm, al_now, last_triggered)
                    THEN /\ last_triggered' =
                              MarkTriggered(last_triggered,
                                            TriggerKey(alarm, al_now))
                         /\ al_alarm' = alarm
                         /\ al_pc' = "lock"
                         /\ fired_ever' = fired_ever \cup {alarm.id}
                         /\ refired' =
                              IF alarm.id \in fired_ever \ fired_tick
                                THEN refired \cup {alarm.id} ELSE refired
                         /\ double_fire' =
                              (double_fire \/ alarm.id \in fired_tick)
                         /\ fired_tick' = fired_tick \cup {alarm.id}
                         /\ UNCHANGED al_idx
                    ELSE /\ al_idx' = al_idx + 1
                         /\ UNCHANGED <<al_pc, al_alarm, last_triggered,
                                        fired_ever, refired, double_fire,
                                        fired_tick>>
    /\ UNCHANGED <<alFrame, record_lock, out_stream, al_now, al_left,
                   ticked, skipped, spoken>>

\* mutant: the flag is not looked at
alarm_check_recording_IgnoresFlag ==
    /\ Alive
    /\ al_pc = "lock"
    /\ record_lock = "free"
    /\ record_lock' = "alarm"
    /\ al_pc' = "tts"
    /\ UNCHANGED <<skipped, al_idx, al_alarm>>
    /\ UNCHANGED <<alFrame, out_stream, al_now, al_left, last_triggered,
                   ticked, fired_ever, refired, double_fire, fired_tick,
                   spoken>>

\* "with record_lock: if not is_recording:"; when recording the block is
\* left at once and the loop goes on
alarm_check_recording ==
    /\ Alive
    /\ al_pc = "lock"
    /\ record_lock = "free"
    /\ IF is_recording
         THEN /\ skipped' = skipped \cup {al_alarm.id}
              /\ al_idx' = al_idx + 1
              /\ al_pc' = "loop"
              /\ al_alarm' = NoAlarm
              /\ UNCHANGED record_lock
         ELSE /\ record_lock' = "alarm"
              /\ al_pc' = "tts"
              /\ UNCHANGED <<skipped, al_idx, al_alarm>>
    /\ UNCHANGED <<alFrame, out_stream, al_now, al_left, last_triggered,
                   ticked, fired_ever, refired, double_fire, fired_tick,
                   spoken>>

\* the end of the with block, reached normally or through
\* "except Exception as e: print(...)"
\* mutant: the thread ends inside the "with" block, the mutex still held
alarm_release_Stops ==
    /\ record_lock' = record_lock
    /\ al_idx' = al_idx
    /\ al_alarm' = NoAlarm
    /\ al_pc' = "stopped"

\* mutant: the mutex stays with the alarm thread
alarm_release_KeepsLock ==
    /\ record_lock' = record_lock
    /\ al_idx' = al_idx + 1
    /\ al_alarm' = NoAlarm
    /\ al_pc' = "loop"

alarm_release ==
    /\ record_lock' = "free"
    /\ al_idx' = al_idx + 1
    /\ al_alarm' = NoAlarm
    /\ al_pc' = "loop"

\* text_to_speech of the notification
alarm_tts ==
    /\ Alive
    /\ al_pc = "tts"
    /\ \E ok \in BOOLEAN :
         IF ok THEN /\ al_pc' = "play_open"
                    /\ UNCHANGED <<record_lock, al_idx, al_alarm>>
               ELSE alarm_release
    /\ UNCHANGED <<alFrame, out_stream, al_now, al_left, last_triggered,
                   ticked, fired_ever, refired, double_fire, fired_tick,
                   skipped, spoken>>

\* play_audio of the notification: audio.open(output=True)
alarm_play_open ==
    /\ Alive
    /\ al_pc = "play_open"
    /\ \E ok \in BOOLEAN :
         IF ok THEN /\ out_stream' = out_stream \cup {"alarm"}
                    /\ al_left' = PlayChunks
                    /\ spoken' = spoken \cup {al_alarm.id}
                    /\ al_pc' = "play"
                    /\ UNCHANGED <<record_lock, al_idx, al_alarm>>
               ELSE /\ alarm_release
                    /\ UNCHANGED <<out_stream, al_left, spoken>>
    /\ UNCHANGED <<alFrame, al_now, last_triggered, ticked, fired_ever,
                   refired, double_fire, fired_tick, skipped>>

\* play_audio of the notification: one iteration of "while data and
\* running" or, after the loop, stop_stream and close
alarm_play_write ==
    /\ Alive
    /\ al_pc = "play"
    /\ IF al_left > 0 /\ running
         THEN /\ al_left' = al_left - 1
              /\ UNCHANGED <<al_pc, al_idx, al_alarm, record_lock,
                             out_stream>>
         ELSE /\ out_stream' = out_stream \ {"alarm"}
              /\ alarm_release
              /\ al_left' = 0
    /\ UNCHANGED <<alFrame, al_now, last_triggered, ticked, fired_ever,
                   refired, double_fire, fired_tick, skipped, spoken>>

\* mutant: the clean-up removes nothing
KeptKeys_All(triggered, now) == triggered

\* the keys kept by the clean-up: those that end with the current minute
KeptKeys(triggered, now) ==
    {k \in triggered : k[2] = strftime(HM(now))}

\* the clean-up of last_triggered and "time.sleep(10)"
alarm_cleanup ==
    /\ Alive
    /\ al_pc = "cleanup"
    /\ last_triggered' = KeptKeys(last_triggered, al_now)
    /\ al_pc' = "tick"
    /\ UNCHANGED <<alFrame, record_lock, out_stream, al_now, al_idx,
                   al_alarm, al_left, ticked, fired_ever, refired,
                   double_fire, fired_tick, skipped, spoken>>


(***************************************************************************)
(* Spec: the foreground thread, the alarm thread, the clock, the signal.   *)
(***************************************************************************)
DefaultExt == Ext(AllCallsOk, "http", 2, "ok", TRUE, "ok")

T2359 == <<"2", "3", ":", "5", "9">>

\* the tool calls the chat service may embed in a run of Spec
SpecCalls == { BaseCall("alarm_list") }

Next ==
    \/ signal_handler
    \/ ButtonChange
    \/ ClockAdvance
    \/ main_loop(MaxSpecTurns)
    \/ record_open
    \/ record_set_flag
    \/ record_hold_loop
    \/ record_clear_flag
    \/ record_hold_finish
    \/ record_auto_loop
    \/ record_auto_finish
    \/ transcribe
    \/ get_ai_response_begin
    \/ chat_first(SpecCalls)
    \/ dispatch({DefaultExt})
    \/ chat_second
    \/ text_to_speech
    \/ play_open
    \/ play_write
    \/ cleanup
    \/ alarm_tick
    \/ alarm_loop
    \/ alarm_check_recording
    \/ alarm_tts
    \/ alarm_play_open
    \/ alarm_play_write
    \/ alarm_cleanup

Spec == Init /\ [][Next]_vars


(***************************************************************************)
(* Properties of Spec.                                                     *)
(***************************************************************************)
\* a step taken by the alarm thread / by the foreground thread
AlarmStep == <<al_pc, al_idx>>' # <<al_pc, al_idx>>
FgStep == fg_pc' # fg_pc

\* the foreground is reading chunks from the input stream
Capturing == fg_pc \in {"rec_loop", "auto_loop"}

\* the alarm thread is producing the notification of al_alarm
Notifying == al_pc \in {"tts", "play_open", "play"}

\* C1: the reply playback of the foreground and the notification playback
\* of the alarm thread never hold the output device at the same time.
C1_ExclusiveOutput == Cardinality(out_stream) <= 1

\* C2: under both policies the recording flag is true while chunks are
\* captured and false once the capture has ended.
C2_FlagAroundCapture ==
    /\ Capturing => is_recording
    /\ fg_pc \in {"main", "rec_open", "rec_close", "auto_close",
                  "transcribe", "converse", "chat1", "dispatch", "chat2",
                  "tts", "play_open", "play"} => ~is_recording

\* the alarm under the loop variable has its time equal to the tick's
\* HH:MM and is enabled
TimeMatches ==
    /\ al_pc = "loop"
    /\ al_idx <= Len(alarms)
    /\ alarms[al_idx].enabled
    /\ alarms[al_idx].time = strftime(HM(al_now))

\* C3 (as stated): a tick that skips a notification because of recording
\* produces no audio, and once the flag is false the next tick at which
\* the alarm's time still matches speaks it.
C3_SkippedThenSpoken ==
    [][ /\ (al_pc = "lock" /\ is_recording /\ AlarmStep)
            => (al_pc' = "loop" /\ out_stream' = out_stream)
        /\ (TimeMatches /\ alarms[al_idx].id \in skipped /\ ~is_recording
              /\ AlarmStep)
            => al_pc' = "lock" ]_vars

\* C3 (amended): a tick that skips a notification because of recording
\* produces no audio; an alarm whose time matches fires at a tick exactly
\* when it has not fired at a tick of that minute (so a skipped alarm is
\* next spoken in a later matching minute, not later in the same minute),
\* and a fired alarm is handed to speech when the flag is false.
C3_SkippedThenNextMinute ==
    [][ /\ (al_pc = "lock" /\ is_recording /\ AlarmStep)
            => (al_pc' = "loop" /\ out_stream' = out_stream)
        /\ (TimeMatches /\ AlarmStep)
            => (al_pc' = "lock" <=> alarms[al_idx].id \notin fired_tick)
        /\ (al_pc = "lock" /\ ~is_recording /\ AlarmStep)
            => al_pc' = "tts" ]_vars

\* the tick that skipped a notification ends while the capture goes on
C3_Witness ==
    /\ skipped # {}
    /\ fg_pc = "rec_loop"
    /\ is_recording
    /\ al_pc = "cleanup"
    /\ out_stream = {}

\* C4: an alarm whose notification was skipped at a tick of a minute is
\* not spoken at any later tick of that minute.
C4_NoRetryInMinute ==
    /\ skipped \cap spoken = {}
    /\ Notifying => al_alarm.id \notin skipped

\* a later tick of the minute meets the skipped alarm with the flag false
C4_Witness ==
    /\ TimeMatches
    /\ alarms[al_idx].id \in skipped
    /\ ~is_recording
    /\ fg_pc = "main"

\* C5: an alarm fires at most once at the ticks of one minute, and no key
\* of an earlier day suppresses it at the matching minute of the next day.
C5_OncePerMinute ==
    /\ ~double_fire
    /\ al_pc = "loop" =>
         \A k \in last_triggered :
            k[2] = strftime(HM(al_now)) => k[1] \in fired_tick

\* an alarm has fired in the matching minute of two days
C5_Witness == refired # {} /\ clock.day > 1

\* C7: under either policy a capture of fewer than 5 chunks returns None
\* and the turn goes no further.
C7_ShortIsNone ==
    [][ (fg_pc \in {"rec_close", "auto_close"} /\ frames < MinChunks
           /\ FgStep)
          => fg_pc' = "main" ]_vars

\* what the two policies do return: a hold-to-talk capture is None exactly
\* when it has fewer than 5 chunks; an auto capture is None exactly when
\* no chunk exceeded the volume threshold, whatever its length.
ReturnsNoneExactlyWhen ==
    [][ /\ (fg_pc = "rec_close" /\ FgStep)
            => (fg_pc' = "main" <=> frames < MinChunks)
        /\ (fg_pc = "auto_close" /\ FgStep)
            => (fg_pc' = "main" <=> ~has_sound) ]_vars

\* an auto capture that heard sound ends with fewer than 5 chunks
C7_ShortAutoCapture ==
    fg_pc = "auto_close" /\ has_sound /\ frames > 0 /\ frames < MinChunks


(***************************************************************************)
(* The conversation on its own: SpecConv, SpecTool and SpecAlarm run the   *)
(* foreground thread from one utterance to the next without the capture    *)
(* and playback steps; they differ in the tool calls the chat service      *)
(* embeds and in the number of utterances.                                 *)
(***************************************************************************)
\* process_voice: a capture and a transcription that yield a text
utterance(maxTurns) ==
    /\ fg_pc = "main"
    /\ running
    /\ turn_no < maxTurns
    /\ fg_pc' = "converse"
    /\ UNCHANGED <<fgFrame, is_recording, record_lock, storeVars, convVars,
                   out_stream, recVars, fg_left, last_call>>

\* process_voice: text_to_speech and play_audio of the reply, both succeed
speak ==
    /\ fg_pc = "tts"
    /\ fg_pc' = "main"
    /\ UNCHANGED <<fgFrame, is_recording, record_lock, storeVars, convVars,
                   out_stream, recVars, fg_left, last_call>>

InitConv(stores, gmail) ==
    /\ InitCommon
    /\ use_button = FALSE
    /\ gmail_service \in gmail
    /\ \E st \in stores :
          /\ alarms = st.alarms
          /\ alarm_next_id = st.next_id
          /\ alarm_file = st

\* ---- SpecConv: many utterances, two tools ----
ConvCalls == { BaseCall("alarm_list"), BaseCall("gmail_list") }

ConvExts == { DefaultExt, Ext(0, "http", 2, "ok", TRUE, "ok") }

InitHistory == InitConv({Store(<<>>, 1)}, {TRUE})

NextConv ==
    \/ utterance(MaxConvTurns)
    \/ get_ai_response_begin
    \/ chat_first(ConvCalls)
    \/ dispatch(ConvExts)
    \/ chat_second
    \/ speak
    \/ cleanup

SpecConv == InitHistory /\ [][NextConv]_vars

\* ---- SpecAlarm: alarm_set and alarm_delete on arbitrary parameters ----
T7_00 == <<"7", ":", "0", "0">>
TSp0700 == <<" ", "0", "7", ":", "0", "0">>
T2400 == <<"2", "4", ":", "0", "0">>
T0760 == <<"0", "7", ":", "6", "0">>
T0700NoSep == <<"0", "7", "0", "0">>
T0700Dash == <<"0", "7", "-", "0", "0">>
TAlpha == <<"a", "b", ":", "c", "d">>
T070000 == <<"0", "7", ":", "0", "0", ":", "0", "0">>
TNeg == <<"-", "1", ":", "0", "0">>

\* the values of params["time"] tried
TimeInputs ==
    { PStr(T0700), PStr(T2359), PStr(T7_00), PStr(TSp0700),
      PStr(T2400), PStr(T0760), PStr(T0700NoSep), PStr(T0700Dash),
      PStr(TAlpha), PStr(<<>>), PStr(T070000), PStr(TNeg), PInt(7), PNone }

\* the values of params["alarm_id"] tried
AlarmIdInputs ==
    { PInt(1), PInt(2), PInt(3), PInt(9), PStr(<<"2">>), PStr(<<"x">>),
      PFloat(2, 5), PNone }

AlarmCalls ==
    {[BaseCall("alarm_set") EXCEPT !.time = t] : t \in TimeInputs}
      \cup
    {[BaseCall("alarm_delete") EXCEPT !.alarm_id = a] : a \in AlarmIdInputs}
      \cup
    {BaseCall("alarm_list")}

AlarmExts == {[DefaultExt EXCEPT !.save = o] : o \in SaveOutcomes}

InitAlarm ==
    InitConv({Store(<<>>, 1),
              Store(<<Alarm(1, T0700, TRUE), Alarm(2, T0700, TRUE)>>, 3)},
             {TRUE})

NextAlarm ==
    \/ utterance(MaxAlarmTurns)
    \/ get_ai_response_begin
    \/ chat_first(AlarmCalls)
    \/ dispatch(AlarmExts)
    \/ chat_second
    \/ speak
    \/ cleanup

SpecAlarm == InitAlarm /\ [][NextAlarm]_vars

\* ---- SpecTool: every tool with every outcome of its collaborators ----
MessageIdInputs ==
    { PInt(0), PInt(1), PInt(2), PInt(3), PStr(<<"1">>),
      PStr(<<"m", "2">>), PStr(<<"z">>) }

ToolCalls ==
    {[BaseCall(t) EXCEPT !.params_ok = p] :
        t \in {"gmail_list", "alarm_list", "camera_capture", "unknown"},
        p \in BOOLEAN}
      \cup
    {[BaseCall("gmail_read") EXCEPT !.message_id = m] :
        m \in MessageIdInputs}
      \cup
    {[BaseCall("gmail_send") EXCEPT !.to = "carol", !.body = b] :
        b \in {"text", ""}}
      \cup
    {[BaseCall("gmail_reply") EXCEPT !.message_id = m, !.attach_photo = a,
                                     !.body = b] :
        m \in MessageIdInputs, a \in BOOLEAN, b \in {"text", ""}}
      \cup
    {[BaseCall("gmail_send_photo") EXCEPT !.to = d, !.take_photo = tp] :
        d \in {"", "carol"}, tp \in BOOLEAN}
      \cup
    {[BaseCall("alarm_set") EXCEPT !.time = PStr(T0701)],
     [BaseCall("alarm_delete") EXCEPT !.alarm_id = PInt(1)]}

CameraOutcomes == {"ok", "nonzero", "timeout", "notfound"}

\* the outcomes of the collaborators that the tool of the call consults
ExtsFor(call) ==
    CASE call.tool = "gmail_list" ->
           {Ext(c, e, n, "ok", TRUE, "ok") :
              c \in 0..AllCallsOk, e \in {"http", "other"}, n \in 0..2}
      [] call.tool \in {"gmail_read", "gmail_send"} ->
           {Ext(c, e, 0, "ok", TRUE, "ok") :
              c \in 0..1, e \in {"http", "other"}}
      [] call.tool \in {"gmail_reply", "gmail_send_photo"} ->
           {Ext(c, e, 0, cam, TRUE, "ok") :
              c \in 0..2, e \in {"http", "other"}, cam \in CameraOutcomes}
      [] call.tool = "camera_capture" ->
           {Ext(AllCallsOk, "http", 0, cam, v, "ok") :
              cam \in CameraOutcomes, v \in BOOLEAN}
      [] OTHER -> {DefaultExt}

InitTool == InitConv({Store(<<>>, 1), Store(<<Alarm(1, T0700, TRUE)>>, 2)},
                     BOOLEAN)

NextTool ==
    \/ utterance(MaxToolTurns)
    \/ get_ai_response_begin
    \/ chat_first(ToolCalls)
    \/ dispatch(ExtsFor(tool_call))
    \/ chat_second
    \/ speak
    \/ cleanup

SpecTool == InitTool /\ [][NextTool]_vars


(***************************************************************************)
(* Properties of SpecConv, SpecAlarm and SpecTool.                         *)
(***************************************************************************)
\* C6 (as stated): the history holds at most 10 turns in every state.
C6_AtMostTen == Len(conversation_history) <= HistoryCap

\* C6 (amended): the history holds at most 10 turns when the first chat
\* request of an utterance is made, and at most 13 at any step after that:
\* the turns appended during an utterance are cut only when the next
\* utterance begins.
C6_TenAtRequest ==
    /\ fg_pc = "chat1" => Len(conversation_history) <= HistoryCap
    /\ Len(conversation_history) <= HistoryCap + 3

\* an utterance with a tool call ends on a history of 13 turns
C6_Witness ==
    /\ Len(conversation_history) = HistoryCap + 3
    /\ fg_pc = "main"

\* the dispatcher runs alarm_set / any tool in this step
Dispatching == fg_pc = "dispatch" /\ FgStep

\* C8: the id alarm_set assigns is greater than every id it assigned
\* before, whatever was deleted in between.
C8_IdsIncrease ==
    [][ (Dispatching /\ Len(alarms') > Len(alarms))
          => \A i \in assigned : alarms'[Len(alarms')].id > i ]_vars

\* an assigned id was deleted and a later alarm_set gave a greater id
C8_Witness ==
    \E i \in assigned :
       /\ \A j \in 1..Len(alarms) : alarms[j].id # i
       /\ \E j \in 1..Len(alarms) :
             alarms[j].id \in assigned /\ alarms[j].id > i

\* the strict form HH:MM: two digits, a colon, two digits, 00-23 / 00-59
IsStrictHHMM(p) ==
    /\ p.kind = "str"
    /\ Len(p.s) = 5
    /\ p.s[3] = ":"
    /\ \A i \in {1, 2, 4, 5} : IsDigit(p.s[i])
    /\ 10 * DigitVal(p.s[1]) + DigitVal(p.s[2]) <= 23
    /\ 10 * DigitVal(p.s[4]) + DigitVal(p.s[5]) <= 59

\* C9: alarm_set succeeds on every strict HH:MM string; on every other
\* input it returns an error string and leaves the list, the next id and
\* the durable record unchanged.
C9_StrictValidation ==
    [][ (Dispatching /\ tool_call.tool = "alarm_set")
          => IF IsStrictHHMM(tool_call.time)
               THEN last_call'.result.ok /\ Len(alarms') = Len(alarms) + 1
               ELSE /\ last_call'.result.kind = "string"
                    /\ ~last_call'.result.ok
                    /\ UNCHANGED <<alarms, alarm_next_id, alarm_file>>
      ]_vars

\* C10: whatever a collaborator does during a tool call, execute_tool
\* returns a string and lets no exception reach its caller.
C10_NeverRaises ==
    last_call.op = "execute_tool" => last_call.result.kind = "string"


(***************************************************************************)
(* Failures inside a turn: services and the capture device.                *)
(***************************************************************************)
\* C11: a failure of the transcription, chat-completion or text-to-speech
\* service during a turn leaves the foreground loop running: the step that
\* makes the service call never leads to the end of main().
C11_ServiceFailureSurvives ==
    [][ (fg_pc \in {"transcribe", "chat1", "chat2", "tts"} /\ FgStep)
          => fg_pc' # "cleanup" ]_vars

\* C12: a failure to open the input device or to read a chunk, under
\* either policy, ends the turn only: the loop is not left, and the flag
\* is false when the loop is back at its top.
C12_CaptureFailureSurvives ==
    [][ (fg_pc \in {"rec_open", "rec_loop", "auto_loop"} /\ FgStep)
          => (fg_pc' # "cleanup" /\ (fg_pc' = "main" => ~is_recording'))
      ]_vars


(***************************************************************************)
(* The dispatcher and the mail cache.                                      *)
(***************************************************************************)
\* the call in dispatch names this tool and its params are an object
Calls(tool) ==
    Dispatching /\ tool_call.tool = tool /\ tool_call.params_ok

\* a message_id that is a number N: an int, or a string of digits
IsNumber(p) ==
    \/ p.kind = "int"
    \/ p.kind = "str" /\ p.s # <<>> /\ \A i \in 1..Len(p.s) : IsDigit(p.s[i])

NumberOf(p) == IF p.kind = "int" THEN p.n ELSE DigitsVal(p.s)

\* C13: read-message and reply-to-message with a numeric index N act on
\* the id of the Nth entry of the cache when 1 <= N <= its length; for
\* every other N the dispatcher returns "no such message", calls no mail
\* function and changes nothing.
C13_IndexResolution ==
    [][ ((Calls("gmail_read") \/ Calls("gmail_reply"))
           /\ IsNumber(tool_call.message_id))
          => LET N == NumberOf(tool_call.message_id)
             IN  IF 1 <= N /\ N <= Len(last_email_list)
                   THEN /\ last_call'.resolved.kind = "found"
                        /\ last_call'.resolved.id = last_email_list[N].id
                   ELSE /\ last_call'.resolved.kind = "missing"
                        /\ last_call'.result = Str(FALSE, "no such message")
                        /\ UNCHANGED <<alarms, alarm_next_id, alarm_file,
                                       last_email_list>>
      ]_vars

\* a reply to message 2 of a cache of two entries has been dispatched
C13_Witness ==
    /\ last_call.op = "execute_tool"
    /\ last_call.call.tool = "gmail_reply"
    /\ last_call.call.message_id = PInt(2)
    /\ Len(last_email_list) = 2
    /\ last_call.resolved.id = M2.id

\* the address a message went to in this step, "" when none was sent
SentTo == last_call'.result.dest

\* C14 (as stated): with the mail service initialised, a reply or a
\* send-photo without a destination goes to the address of the first cache
\* entry; with an empty cache nothing is sent and the result says that no
\* destination is known.
C14_FirstEntryFallback ==
    [][ (gmail_service /\
           (Calls("gmail_reply")
              \/ (Calls("gmail_send_photo") /\ tool_call.to = "")))
          => IF last_email_list = <<>>
               THEN last_call'.result = Str(FALSE, "no destination")
               ELSE SentTo \in
                      {"", extract_email_address(
                             last_email_list[1].from_email)}
      ]_vars

\* C14 (amended): with the mail service initialised, a send-photo without
\* a destination goes to the address of the first cache entry, and with an
\* empty cache sends nothing and reports that no destination is known
\* (without the mail service it reports that and sends nothing).  A reply takes no destination
\* parameter: by index N it goes to the sender kept in the Nth cache
\* entry (nothing is sent when N is outside the cache), by message id it
\* goes to the Reply-To of that message, else to its From.
C14_DestinationUsed ==
    [][ /\ (Calls("gmail_send_photo") /\ tool_call.to = "")
            => IF ~gmail_service
                 THEN last_call'.result = Str(FALSE, "gmail not initialised")
               ELSE IF last_email_list = <<>>
                 THEN last_call'.result = Str(FALSE, "no destination")
                 ELSE SentTo \in
                        {"", extract_email_address(
                               last_email_list[1].from_email)}
        /\ (Calls("gmail_reply") /\ IsNumber(tool_call.message_id))
            => LET N == NumberOf(tool_call.message_id)
               IN  IF 1 <= N /\ N <= Len(last_email_list)
                     THEN SentTo \in
                            {"", extract_email_address(
                                   last_email_list[N].from_email)}
                     ELSE last_call'.result = Str(FALSE, "no such message")
        /\ (Calls("gmail_reply") /\ ~IsNumber(tool_call.message_id))
            => IF Known(tool_call.message_id.s)
                 THEN LET o == Lookup(tool_call.message_id.s)
                      IN  SentTo \in
                            {"", extract_email_address(
                                   IF o.reply_to # Absent THEN o.reply_to
                                   ELSE o.from)}
                 ELSE SentTo = ""
      ]_vars

\* a reply to message 2 has gone to the sender of the second cache entry,
\* who is not the sender of the first
C14_Witness ==
    /\ last_call.op = "execute_tool"
    /\ last_call.call.tool = "gmail_reply"
    /\ last_call.call.message_id = PInt(2)
    /\ Len(last_email_list) = 2
    /\ last_call.result.dest =
         extract_email_address(last_email_list[2].from_email)
    /\ last_call.result.dest #
         extract_email_address(last_email_list[1].from_email)


(***************************************************************************)
(* alarm_delete.                                                           *)
(***************************************************************************)
\* the parameter denotes an integer: a JSON integer or its decimal text
IsIntegerId(p) ==
    \/ p.kind = "int"
    \/ p.kind = "str" /\ ParseInt(p.s).ok

IntegerId(p) == IF p.kind = "int" THEN p.n ELSE ParseInt(p.s).val

\* C15: alarm_delete with an id of the list removes that alarm and leaves
\* the other alarms and the next unused id as they were; with an unknown
\* or non-integer id it returns a failure string and leaves the list, the
\* next unused id and the durable record as they were.
C15_DeleteFrame ==
    [][ Calls("alarm_delete")
          => LET p == tool_call.alarm_id
             IN  IF IsIntegerId(p) /\
                    (\E i \in 1..Len(alarms) : alarms[i].id = IntegerId(p))
                   THEN /\ alarms' = SelectSeq(alarms,
                                        LAMBDA a : a.id # IntegerId(p))
                        /\ Len(alarms') = Len(alarms) - 1
                        /\ alarm_next_id' = alarm_next_id
                   ELSE /\ ~last_call'.result.ok
                        /\ last_call'.result.kind = "string"
                        /\ UNCHANGED <<alarms, alarm_next_id, alarm_file>>
      ]_vars


(***************************************************************************)
(* gmail_list and the cache.                                               *)
(***************************************************************************)
\* the messages a listing has retrieved when it returns: none when the
\* list request fails, else those fetched before a request failed
Retrieved(l) ==
    IF l.calls_ok = 0 THEN 0
    ELSE IF l.calls_ok - 1 < l.n THEN l.calls_ok - 1
    ELSE l.n

\* C16: after a list-messages operation, whatever its outcome, the cache
\* holds the messages that operation retrieved and nothing of an earlier
\* listing.
C16_CacheIsLastListing ==
    [][ (Calls("gmail_list") /\ gmail_service)
          => last_email_list' =
               EmailInfos(SubSeq(Mailbox, 1, Retrieved(last_call'.listing)))
      ]_vars

\* a listing that finds no message has returned while the cache holds the
\* entries of an earlier listing
C16_StaleCache ==
    /\ last_call.op = "execute_tool"
    /\ last_call.call.tool = "gmail_list"
    /\ last_call.result = Str(TRUE, "no mail")
    /\ last_email_list # <<>>


(***************************************************************************)
(* The turns an utterance adds to the history.                             *)
(***************************************************************************)
\* the last k turns of the history
LastTurns(h, k) == SubSeq(h, Len(h) - k + 1, Len(h))

\* the replies of the chat service kept for utterance n
RepliesOf(h, n) ==
    {i \in 1..Len(h) : h[i].n = n /\ h[i].role = "assistant"}

\* C17: when an utterance is complete the history ends, in order, with the
\* user turn, the tool-invoking reply, the tool result as a user turn and
\* the summarized reply (tool call), or with the user turn and the single
\* reply (no tool call); each reply of the chat service is kept once.
C17_RepliesAppendedOnce ==
    [][ /\ (fg_pc = "chat2" /\ fg_pc' = "tts")
            => /\ Len(conversation_history') >= 4
               /\ LastTurns(conversation_history', 4) =
                    <<Turn("user", "utterance", turn_no),
                      Turn("assistant", "tool_reply", turn_no),
                      Turn("user", "tool_result", turn_no),
                      Turn("assistant", "summary", turn_no)>>
               /\ Cardinality(RepliesOf(conversation_history', turn_no)) = 2
        /\ (fg_pc = "chat1" /\ fg_pc' = "tts")
            => /\ Len(conversation_history') >= 2
               /\ LastTurns(conversation_history', 2) =
                    <<Turn("user", "utterance", turn_no),
                      Turn("assistant", "reply", turn_no)>>
               /\ Cardinality(RepliesOf(conversation_history', turn_no)) = 1
      ]_vars

\* an utterance with a tool call is complete, after earlier utterances
\* with and without one
C17_Witness ==
    /\ fg_pc = "tts"
    /\ turn_no >= 3
    /\ conversation_history[Len(conversation_history)].tag = "summary"
    /\ \E i \in 1..Len(conversation_history) :
          conversation_history[i].tag = "reply"


(***************************************************************************)
(* Shutdown.  SpecFair takes the steps of Spec with both threads          *)
(* scheduled: a thread that can take a step eventually takes one           *)
(* (external calls return).                                                *)
(***************************************************************************)
FgNext ==
    \/ main_loop(MaxSpecTurns)
    \/ record_open
    \/ record_set_flag
    \/ record_hold_loop
    \/ record_clear_flag
    \/ record_hold_finish
    \/ record_auto_loop
    \/ record_auto_finish
    \/ transcribe
    \/ get_ai_response_begin
    \/ chat_first(SpecCalls)
    \/ dispatch({DefaultExt})
    \/ chat_second
    \/ text_to_speech
    \/ play_open
    \/ play_write
    \/ cleanup

AlNext ==
    \/ alarm_tick
    \/ alarm_loop
    \/ alarm_check_recording
    \/ alarm_tts
    \/ alarm_play_open
    \/ alarm_play_write
    \/ alarm_cleanup

\* one alarm, due in the first minute, is loaded at startup
InitFair ==
    /\ InitCommon
    /\ use_button \in BOOLEAN
    /\ gmail_service = TRUE
    /\ alarms = <<Alarm(1, T0700, TRUE)>>
    /\ alarm_next_id = 2
    /\ alarm_file = Store(alarms, alarm_next_id)

SpecFair ==
    InitFair /\ [][Next]_vars /\ WF_vars(FgNext) /\ WF_vars(AlNext)

\* C18: once false the keep-running flag stays false; the capture loops,
\* the playback loops, the top-level loop and the scheduler loop leave at
\* their next check of it; and the foreground reaches its cleanup step.
C18_ShutdownReachesCleanup ==
    /\ [][ /\ ~running => ~running'
           /\ (~running /\ fg_pc = "rec_loop"
                 /\ <<fg_pc, frames, elapsed>>' # <<fg_pc, frames, elapsed>>)
               => (fg_pc' = "rec_unlock" /\ frames' = frames)
           /\ (~running /\ fg_pc = "auto_loop"
                 /\ <<fg_pc, frames>>' # <<fg_pc, frames>>)
               => (fg_pc' \in {"auto_close", "cleanup"} /\ frames' = frames)
           /\ (~running /\ fg_pc = "play"
                 /\ <<fg_pc, fg_left>>' # <<fg_pc, fg_left>>)
               => fg_pc' = "main"
           /\ (~running /\ fg_pc = "main" /\ FgStep) => fg_pc' = "cleanup"
           /\ (~running /\ al_pc = "play"
                 /\ <<al_pc, al_left>>' # <<al_pc, al_left>>)
               => al_pc' = "loop"
           /\ (~running /\ al_pc = "tick" /\ AlarmStep)
               => al_pc' = "stopped" ]_vars
    /\ (~running ~> fg_pc \in {"cleanup", "terminated"})

\* the hold-to-talk loop has left on the flag alone: the button is held,
\* neither the chunk limit nor the timeout is reached; the scheduler loop
\* has left too
C18_Witness ==
    /\ ~running
    /\ fg_pc = "rec_unlock"
    /\ button_pressed
    /\ frames > 0
    /\ frames < HoldMaxChunks
    /\ elapsed <= RecordingTimeout
    /\ al_pc = "stopped"


(***************************************************************************)
(* Termination of a capture.  SpecGmail runs the foreground thread of the  *)
(* variant src/ai_necklace_gmail.py, whose hold-to-talk loop differs from  *)
(* the one of ai_necklace.py; the variant has no alarm thread.             *)
(***************************************************************************)
\* ai_necklace_gmail.py, record_audio_while_pressed: the head of one
\* iteration of "for i in range(max_chunks):" and its two checks
gmail_hold_check ==
    /\ fg_pc = "rec_loop"
    /\ fg_pc' = IF frames >= HoldMaxChunks \/ ~running \/ ~button_pressed
                  THEN "rec_unlock" ELSE "rec_read"
    /\ UNCHANGED <<fgFrame, is_recording, record_lock, storeVars, convVars,
                   out_stream, recVars, fg_left, last_call>>

\* ai_necklace_gmail.py, record_audio_while_pressed: the blocking
\* stream.read.  It returns a chunk, raises (the exception leaves
\* process_voice), or has not returned after another unit of time; the
\* time is counted up to one unit past the timeout of ai_necklace.py.
gmail_hold_read ==
    /\ fg_pc = "rec_read"
    /\ \E r \in {"chunk", "raise", "blocked"} :
          /\ r = "blocked" => elapsed <= RecordingTimeout + 1
          /\ frames' = IF r = "chunk" THEN frames + 1 ELSE frames
          /\ elapsed' = IF r = "raise" THEN elapsed ELSE elapsed + 1
          /\ fg_pc' = CASE r = "chunk" -> "rec_loop"
                         [] r = "raise" -> Uncaught
                         [] OTHER -> "rec_read"
    /\ UNCHANGED <<fgFrame, is_recording, record_lock, storeVars, convVars,
                   out_stream, has_sound, silent_chunks, fg_left, last_call>>

GmailCalls == { BaseCall("gmail_list") }

NextGmail ==
    \/ signal_handler
    \/ ButtonChange
    \/ main_loop(MaxSpecTurns)
    \/ record_open
    \/ record_set_flag
    \/ gmail_hold_check
    \/ gmail_hold_read
    \/ record_clear_flag
    \/ record_hold_finish
    \/ record_auto_loop
    \/ record_auto_finish
    \/ transcribe
    \/ get_ai_response_begin
    \/ chat_first(GmailCalls)
    \/ dispatch({DefaultExt})
    \/ chat_second
    \/ text_to_speech
    \/ play_open
    \/ play_write
    \/ cleanup

InitGmail ==
    /\ InitCommon
    /\ use_button \in BOOLEAN
    /\ gmail_service = TRUE
    /\ alarms = <<>>
    /\ alarm_next_id = 1
    /\ alarm_file = Store(<<>>, 1)

SpecGmail == InitGmail /\ [][NextGmail]_vars

\* the foreground is inside a hold-to-talk capture
InHoldCapture == fg_pc \in {"rec_loop", "rec_read"}

\* C19: every capture ends: a hold-to-talk capture is over at the latest
\* when the timeout has run out, also with the button held and no chunk
\* delivered, and holds at most the maximum number of chunks; an auto
\* capture holds at most its maximum number of chunks.
C19_CaptureEnds ==
    /\ InHoldCapture
         => (elapsed <= RecordingTimeout + 1 /\ frames <= HoldMaxChunks)
    /\ fg_pc = "auto_loop" => frames <= AutoMaxChunks

\* the button is held, no chunk has come, the timeout has run out and the
\* capture still waits in the read
C19_StuckInRead ==
    /\ fg_pc = "rec_read"
    /\ running
    /\ button_pressed
    /\ frames = 0
    /\ elapsed > RecordingTimeout + 1

(***************************************************************************)
(* The extraction of a tool call from the text of a reply                  *)
(* (get_ai_response, lines 1080-1122).  A text is a sequence of            *)
(* one-character strings.                                                  *)
(***************************************************************************)
Quote == "\""

\* the characters \s matches, as far as a string of the model can hold them
Whitespace == {" ", "\t", "\n", "\r", "\f"}

\* the characters json.loads skips between tokens
JsonWhitespace == {" ", "\t", "\n", "\r"}

\* characters a JSON string may not hold unescaped
ControlChars == {"\t", "\n", "\r", "\f"}

Braces == {"{", "}"}

\* a JSON object: its items in insertion order
JObj(items) == [kind |-> "obj", items |-> items]

PBool(b) == [kind |-> "bool", b |-> b]

\* the text "tool", quotes included
ToolKey ==
    <<"\"", "t", "o", "o", "l", "\"">>

\* the text "params":
ParamsKey ==
    <<"\"", "p", "a", "r", "a", "m", "s", "\"", ":">>

\* the keys looked up at line 1122 and by execute_tool
KeyTool ==
    <<"t", "o", "o", "l">>

KeyParams ==
    <<"p", "a", "r", "a", "m", "s">>

\* a reply object that asks for the unread mail
ListUnreadObject ==
    <<"{", "\"", "t", "o", "o", "l", "\"", ":", "\"", "g", "m", "a", "i",
      "l", "_", "l", "i", "s", "t", "\"", ",", "\"", "p", "a", "r", "a",
      "m", "s", "\"", ":", "{", "\"", "q", "u", "e", "r", "y", "\"", ":",
      "\"", "i", "s", ":", "u", "n", "r", "e", "a", "d", "\"", ",", "\"",
      "m", "a", "x", "_", "r", "e", "s", "u", "l", "t", "s", "\"", ":", "3",
      "}", "}">>

\* what json.loads makes of ListUnreadObject
ListUnreadCall ==
    JObj(<< [k |-> KeyTool, v |-> PStr(<<"g", "m", "a", "i", "l", "_", "l", "i", "s", "t">>)],
            [k |-> <<"p", "a", "r", "a", "m", "s">>,
             v |-> JObj(<< [k |-> <<"q", "u", "e", "r", "y">>,
                            v |-> PStr(<<"i", "s", ":", "u", "n", "r", "e", "a", "d">>)],
                           [k |-> <<"m", "a", "x", "_", "r", "e", "s", "u", "l", "t", "s">>,
                            v |-> PInt(3)] >>)] >>)

\* pieces of prose: none of them holds an object
ProsePieces ==
    { <<"H", "e", "r", "e", " ", "y", "o", "u", " ", "g", "o", " ">>,
      <<" ", "t", "h", "a", "n", "k", "s">>,
      <<"t", "h", "e", " ", "\"", "t", "o", "o", "l", "\"", " ", "s", "a",
        "y", "s", ":", "\n">>,
      <<"o", "k", " ", "(", "3", " ", "n", "e", "w", ")", ".">> }

\* execute_tool, line 792: the tool name of the call, by its text
ToolNamed(v) ==
    IF v.kind = "str" /\ v.s = (<<"g", "m", "a", "i", "l", "_", "l", "i", "s", "t">>) 
      THEN "gmail_list"
    ELSE IF v.kind = "str" /\ v.s = (<<"a", "l", "a", "r", "m", "_", "l", "i", "s", "t">>) 
      THEN "alarm_list"
    ELSE "unknown"

\* the element of a set of one element.  Only({e(x) : x \in {v}}) is e(v)
\* with v evaluated once.
Only(S) == CHOOSE x \in S : TRUE

\* the least and the greatest number of a non-empty set
Least(S) == CHOOSE x \in S : \A y \in S : x <= y

Greatest(S) == CHOOSE x \in S : \A y \in S : x >= y

\* ---- the regular expressions: a pattern is a sequence of items ----
\* a literal text
Lit(s) == [item |-> "lit", s |-> s]

\* a greedy repetition, at least min times, of a character class: the
\* characters in set when in is TRUE, the characters not in set otherwise
Rep(in, set, min) == [item |-> "rep", in |-> in, set |-> set, min |-> min]

InClass(c, it) == (c \in it.set) = it.in

\* the text t holds s from position pos on
HasAt(t, s, pos) ==
    /\ pos + Len(s) - 1 <= Len(t)
    /\ \A i \in 1..Len(s) : t[pos + i - 1] = s[i]

\* how many characters from pos on belong to the class of item it
RunLength(t, it, pos) ==
    Least({i \in pos..(Len(t) + 1) : i > Len(t) \/ ~InClass(t[i], it)}) - pos

\* "no match": positions start at 1
NoMatch == 0

RECURSIVE MatchAt(_, _, _, _)
RECURSIVE TryRep(_, _, _, _)
\* the backtracking match of the items k.. of re at position pos: the
\* position after the match, or NoMatch
MatchAt(t, re, k, pos) ==
    IF k > Len(re) THEN pos
    ELSE IF re[k].item = "lit"
      THEN IF HasAt(t, re[k].s, pos)
             THEN MatchAt(t, re, k + 1, pos + Len(re[k].s))
             ELSE NoMatch
      ELSE Only({ IF ns = {} THEN NoMatch
                  ELSE MatchAt(t, re, k + 1, pos + Greatest(ns)) :
                  ns \in {TryRep(t, re, k, pos)} })

\* a greedy repetition gives characters back one at a time: the lengths
\* of the repetition of item k with which the rest of the pattern matches
TryRep(t, re, k, pos) ==
    {n \in re[k].min..RunLength(t, re[k], pos) :
       MatchAt(t, re, k + 1, pos + n) # NoMatch}

NoGroup == [found |-> FALSE, group |-> <<>>]

\* re.search(pattern, text): the leftmost match
re_search(re, t) ==
    Only({ IF starts = {} THEN NoGroup
           ELSE [found |-> TRUE,
                 group |-> SubSeq(t, Least(starts),
                                  MatchAt(t, re, 1, Least(starts)) - 1)] :
           starts \in {{s \in 1..Len(t) : MatchAt(t, re, 1, s) # NoMatch}} })

\* r'\{"tool":\s*"[^"]+",\s*"params":\s*\{[^{}]*\}\}'
Stage1 ==
    << Lit(<<"{">> \o ToolKey \o <<":">>), Rep(TRUE, Whitespace, 0),
       Lit(<<Quote>>), Rep(FALSE, {Quote}, 1), Lit(<<Quote, ",">>),
       Rep(TRUE, Whitespace, 0), Lit(ParamsKey), Rep(TRUE, Whitespace, 0),
       Lit(<<"{">>), Rep(FALSE, Braces, 0), Lit(<<"}", "}">>) >>

\* r'\{"tool":\s*"[^"]+",\s*"params":\s*\{[^}]*\}\}'
Stage2 ==
    << Lit(<<"{">> \o ToolKey \o <<":">>), Rep(TRUE, Whitespace, 0),
       Lit(<<Quote>>), Rep(FALSE, {Quote}, 1), Lit(<<Quote, ",">>),
       Rep(TRUE, Whitespace, 0), Lit(ParamsKey), Rep(TRUE, Whitespace, 0),
       Lit(<<"{">>), Rep(FALSE, {"}"}, 0), Lit(<<"}", "}">>) >>

\* r'\{[^{}]*"tool"[^{}]*\}'
Stage3 ==
    << Lit(<<"{">>), Rep(FALSE, Braces, 0), Lit(ToolKey),
       Rep(FALSE, Braces, 0), Lit(<<"}">>) >>

\* the three searches of lines 1084-1090, each tried when the one before
\* found nothing
json_match(t) ==
    Only({ IF m1.found THEN m1
           ELSE Only({ IF m2.found THEN m2 ELSE re_search(Stage3, t) :
                       m2 \in {re_search(Stage2, t)} }) :
           m1 \in {re_search(Stage1, t)} })

\* ---- json.loads on objects, strings, integers, true, false, null ----
\* (arrays, fractions, exponents and the escapes \b and \u are not among
\* the texts tried)
JsonFail == [ok |-> FALSE, val |-> PNone, next |-> 0]

JsonOk(v, next) == [ok |-> TRUE, val |-> v, next |-> next]

\* the position of the next character that is no whitespace
SkipWs(t, pos) == pos + RunLength(t, Rep(TRUE, JsonWhitespace, 0), pos)

\* the character an escape stands for; <<>> when it is not an escape
Unescape(c) ==
    CASE c \in {Quote, "\\", "/"} -> <<c>>
      [] c = "n" -> <<"\n">>
      [] c = "t" -> <<"\t">>
      [] c = "r" -> <<"\r">>
      [] c = "f" -> <<"\f">>
      [] OTHER -> <<>>

RECURSIVE StringFrom(_, _, _)
\* the rest of a string whose opening quote has been read
StringFrom(t, pos, acc) ==
    IF pos > Len(t) THEN JsonFail
    ELSE IF t[pos] = Quote THEN JsonOk(PStr(acc), pos + 1)
    ELSE IF t[pos] = "\\"
      THEN IF pos + 1 <= Len(t) /\ Unescape(t[pos + 1]) # <<>>
             THEN StringFrom(t, pos + 2, acc \o Unescape(t[pos + 1]))
             ELSE JsonFail
    ELSE IF t[pos] \in ControlChars THEN JsonFail
    ELSE StringFrom(t, pos + 1, Append(acc, t[pos]))

\* -?(0|[1-9][0-9]*)
ParseNumber(t, pos) ==
    LET neg == t[pos] = "-"
        p == IF neg THEN pos + 1 ELSE pos
        digits == Rep(TRUE, {DigitChars[i] : i \in 1..10}, 0)
    IN  Only({ IF n = 0 \/ (p + n <= Len(t) /\ t[p + n] \in {".", "e", "E"})
                 THEN JsonFail
                 ELSE JsonOk(PInt(IF neg
                                    THEN 0 - DigitsVal(SubSeq(t, p, p + n - 1))
                                    ELSE DigitsVal(SubSeq(t, p, p + n - 1))),
                             p + n) :
               n \in {IF p <= Len(t) /\ t[p] = "0" THEN 1
                      ELSE RunLength(t, digits, p)} })

\* d[k] = v of a Python dict held as a sequence of items in insertion order
DictSet(items, k, v) ==
    IF \E i \in 1..Len(items) : items[i].k = k
      THEN [i \in 1..Len(items) |->
              IF items[i].k = k THEN [k |-> k, v |-> v] ELSE items[i]]
      ELSE Append(items, [k |-> k, v |-> v])

HasKey(d, k) == \E i \in 1..Len(d.items) : d.items[i].k = k

\* d.get(k): None when the key is missing
Get(d, k) ==
    IF HasKey(d, k)
      THEN d.items[CHOOSE i \in 1..Len(d.items) : d.items[i].k = k].v
      ELSE PNone

RECURSIVE ParseValue(_, _)
RECURSIVE ParseMembers(_, _, _)
\* the value that starts at pos
ParseValue(t, pos) ==
    IF pos > Len(t) THEN JsonFail
    ELSE IF t[pos] = Quote THEN StringFrom(t, pos + 1, <<>>)
    ELSE IF t[pos] = "{"
      THEN LET p == SkipWs(t, pos + 1)
           IN  IF p <= Len(t) /\ t[p] = "}"
                 THEN JsonOk(JObj(<<>>), p + 1)
                 ELSE ParseMembers(t, p, <<>>)
    ELSE IF HasAt(t, <<"n", "u", "l", "l">>, pos)
      THEN JsonOk(PNone, pos + 4)
    ELSE IF HasAt(t, <<"t", "r", "u", "e">>, pos)
      THEN JsonOk(PBool(TRUE), pos + 4)
    ELSE IF HasAt(t, <<"f", "a", "l", "s", "e">>, pos)
      THEN JsonOk(PBool(FALSE), pos + 5)
    ELSE IF t[pos] = "-" \/ IsDigit(t[pos]) THEN ParseNumber(t, pos)
    ELSE JsonFail

\* the members of an object from the quote of a key on
ParseMembers(t, pos, items) ==
    IF pos > Len(t) \/ t[pos] # Quote THEN JsonFail
    ELSE Only({
      IF ~key.ok THEN JsonFail
      ELSE Only({
        IF colon > Len(t) \/ t[colon] # ":" THEN JsonFail
        ELSE Only({
          IF ~v.ok THEN JsonFail
          ELSE Only({
            IF e > Len(t) THEN JsonFail
            ELSE IF t[e] = "}" THEN JsonOk(JObj(its), e + 1)
            ELSE IF t[e] = "," THEN ParseMembers(t, SkipWs(t, e + 1), its)
            ELSE JsonFail :
            its \in {DictSet(items, key.val.s, v.val)},
            e \in {SkipWs(t, v.next)} }) :
          v \in {ParseValue(t, SkipWs(t, colon + 1))} }) :
        colon \in {SkipWs(t, key.next)} }) :
      key \in {StringFrom(t, pos + 1, <<>>)} })

\* json.loads(s): one value and nothing after it; ok is FALSE for
\* JSONDecodeError
json_loads(s) ==
    Only({ IF v.ok /\ SkipWs(s, v.next) > Len(s)
             THEN [ok |-> TRUE, val |-> v.val]
             ELSE [ok |-> FALSE, val |-> PNone] :
           v \in {ParseValue(s, SkipWs(s, 1))} })

\* Python's truth value of what json.loads returned (None is PNone)
Truthy(v) ==
    CASE v.kind = "obj" -> v.items # <<>>
      [] v.kind = "str" -> v.s # <<>>
      [] v.kind = "int" -> v.n # 0
      [] v.kind = "bool" -> v.b
      [] OTHER -> FALSE

\* lines 1093-1099: the matched text parsed, None when nothing matched or
\* the parse failed
FromRegex(t) ==
    Only({ IF m.found
             THEN Only({ IF r.ok THEN r.val ELSE PNone :
                         r \in {json_loads(m.group)} })
             ELSE PNone :
           m \in {json_match(t)} })

\* str.find, positions from 1, NoMatch for -1
find(t, s) ==
    Only({ IF at = {} THEN NoMatch ELSE Least(at) :
           at \in {{i \in 1..Len(t) : HasAt(t, s, i)}} })

\* the value of depth after the character at i has been counted
Depth(t, start, i) ==
    Cardinality({j \in start..i : t[j] = "{"})
      - Cardinality({j \in start..i : t[j] = "}"})

\* lines 1108-1120: the brace-depth scan from start; every closing brace
\* that brings the depth to 0 is tried, the first span that parses wins
ScanFrom(t, start) ==
    Only({ IF ends = {} THEN PNone
           ELSE json_loads(SubSeq(t, start, Least(ends))).val :
           ends \in {{i \in start..Len(t) :
                        /\ t[i] = "}"
                        /\ Depth(t, start, i) = 0
                        /\ json_loads(SubSeq(t, start, i)).ok}} })

\* lines 1102-1106: where the scan starts, NoMatch when there is no start
ScanStart(t) ==
    Only({ IF i # NoMatch THEN i ELSE find(t, <<"{", " ">> \o ToolKey) :
           i \in {find(t, <<"{">> \o ToolKey)} })

\* the value of tool_call at line 1122
Extracted(t) ==
    Only({
      IF ~Truthy(a) /\ find(t, ToolKey) # NoMatch
        THEN Only({
               IF start # NoMatch
                 THEN Only({ IF b.kind # "none" THEN b ELSE a :
                             b \in {ScanFrom(t, start)} })
                 ELSE a :
               start \in {ScanStart(t)} })
        ELSE a :
      a \in {FromRegex(t)} })

\* mutant: the tool name is looked for under the key "name"
IsToolCall_Name(c) == Truthy(c) /\ HasKey(c, <<"n", "a", "m", "e">>)

\* line 1122: "if tool_call and 'tool' in tool_call"
IsToolCall(c) == Truthy(c) /\ HasKey(c, KeyTool)

\* the tool call a reply yields, PNone for "no tool call"
ToolCallExtractor(t) ==
    Only({ IF IsToolCall(c) THEN c ELSE PNone : c \in {Extracted(t)} })

\* execute_tool, lines 792-793: "tool_call.get('tool')" and
\* "tool_call.get('params', {})".  The replies tried name tools whose
\* parameters execute_tool does not read.
CallOf(c) ==
    [BaseCall(ToolNamed(Get(c, KeyTool))) EXCEPT
       !.params_ok = ~HasKey(c, KeyParams) \/ Get(c, KeyParams).kind = "obj"]

\* replies that hold the object between two pieces of prose
ObjectReplies ==
    { p \o ListUnreadObject \o s : p \in ProsePieces, s \in ProsePieces }

\* replies of prose alone
PlainReplies == ProsePieces

\* a summary of prose alone
ExampleSummary == <<"o", "k", " ", "(", "3", " ", "n", "e", "w", ")", ".">>

\* ---- replies that hold one well-formed object ----
\* params is empty; whitespace after the colons and the comma
ObjEmptyParams ==
    <<"{", "\"", "t", "o", "o", "l", "\"", ":", " ", "\"", "a", "l", "a",
      "r", "m", "_", "l", "i", "s", "t", "\"", ",", " ", "\"", "p", "a",
      "r", "a", "m", "s", "\"", ":", " ", "{", "}", "}">>

\* params holds a nested object
ObjNested ==
    <<"{", "\"", "t", "o", "o", "l", "\"", ":", "\"", "g", "m", "a", "i",
      "l", "_", "l", "i", "s", "t", "\"", ",", "\"", "p", "a", "r", "a",
      "m", "s", "\"", ":", "{", "\"", "f", "i", "l", "t", "e", "r", "\"",
      ":", "{", "\"", "m", "a", "x", "_", "r", "e", "s", "u", "l", "t", "s",
      "\"", ":", "3", "}", "}", "}">>

\* an opening brace inside a string value of params
ObjOpenBrace ==
    <<"{", "\"", "t", "o", "o", "l", "\"", ":", "\"", "g", "m", "a", "i",
      "l", "_", "l", "i", "s", "t", "\"", ",", "\"", "p", "a", "r", "a",
      "m", "s", "\"", ":", "{", "\"", "q", "u", "e", "r", "y", "\"", ":",
      "\"", "{", "\"", "}", "}">>

\* a closing brace inside a string value of params
ObjCloseBrace ==
    <<"{", "\"", "t", "o", "o", "l", "\"", ":", "\"", "g", "m", "a", "i",
      "l", "_", "l", "i", "s", "t", "\"", ",", "\"", "p", "a", "r", "a",
      "m", "s", "\"", ":", "{", "\"", "q", "u", "e", "r", "y", "\"", ":",
      "\"", "}", "\"", "}", "}">>

ToolObjects ==
    {ListUnreadObject, ObjEmptyParams, ObjNested, ObjOpenBrace, ObjCloseBrace}

\* a well-formed object between two pieces of prose
WellFormedReplies ==
    { p \o o \o s : p \in ProsePieces, o \in ToolObjects, s \in ProsePieces }

\* replies in which no stage finds an object that parses and holds the
\* key "tool"
BrokenReplies ==
    { <<"{", "\"", "t", "o", "o", "l", "\"", "}">>,
      <<"s", "e", "e", " ", "{", "\"", "t", "o", "o", "l", "\"", ":", " ",
        "t", "r", "u", "}", " ", "o", "k">>,
      <<"x", " ", "{", "\"", "t", "o", "o", "l", "\"", ":", "\"", "g", "m",
        "a", "i", "l", "_", "l", "i", "s", "t", "\"", ",", "\"", "p", "a",
        "r", "a", "m", "s", "\"", ":", "{", "\"", "m", "a", "x", "_", "r",
        "e", "s", "u", "l", "t", "s", "\"", ":", "0", "3", "}", "}", " ",
        "y">>,
      <<"{", "\"", "t", "o", "o", "l", "\"", ":", "\"", "g", "m", "a", "i",
        "l", "_", "l", "i", "s", "t", "\"", ",", "\"", "p", "a", "r", "a",
        "m", "s", "\"", ":", "{", "\"", "q", "u", "e", "r", "y", "\"", ":",
        "\"", "i", "s", ":", "u", "n", "r", "e", "a", "d", "\"", "}", " ",
        "a", "n", "d", " ", "s", "o", " ", "o", "n">>,
      <<"{", "\"", "a", "\"", ":", " ", "\"", "t", "o", "o", "l", "\"", "}">> }

\* replies that hold two objects
TwoObjectsFirst == ObjEmptyParams \o <<" ", "a", "n", "d", " ">> \o ListUnreadObject
TwoObjectsOther == ListUnreadObject \o <<" ">> \o ObjEmptyParams
TwoObjectsNested == ObjNested \o ObjEmptyParams

SeveralObjects == {TwoObjectsFirst, TwoObjectsOther, TwoObjectsNested}

Replies ==
    ObjectReplies \cup PlainReplies \cup WellFormedReplies \cup BrokenReplies
      \cup SeveralObjects

\* mutant: the reply is appended twice
PlainAnswer_Twice(h, n) ==
    h \o <<Turn("assistant", "reply", n), Turn("assistant", "reply", n)>>

\* lines 1150-1151: the reply is appended as the answer
PlainAnswer(h, n) == Append(h, Turn("assistant", "reply", n))

\* the first chat-completion call with the text of its reply: the call
\* raises, or it returns one of replies; the tool call is extracted from
\* the text, and a reply without one is appended as the answer
chat_reply(replies) ==
    /\ fg_pc = "chat1"
    /\ \/ /\ fg_pc' = Uncaught
          /\ UNCHANGED <<conversation_history, tool_call, last_call>>
       \/ \E t \in replies :
            \E c \in {ToolCallExtractor(t)} :
                /\ last_call' = [op |-> "extract", ai_response |-> t,
                                 tool_call |-> c, turn |-> turn_no]
                /\ IF c.kind = "none"
                     THEN /\ conversation_history' =
                               PlainAnswer(conversation_history, turn_no)
                          /\ fg_pc' = "tts"
                          /\ UNCHANGED tool_call
                     ELSE /\ tool_call' = CallOf(c)
                          /\ fg_pc' = "dispatch"
                          /\ UNCHANGED conversation_history
    /\ UNCHANGED <<fgFrame, is_recording, record_lock, storeVars,
                   last_email_list, turn_no, out_stream, recVars, fg_left>>

\* the texts the second chat-completion call may return
SummaryReplies == {ExampleSummary, TwoObjectsOther}

\* mutant: the second reply is searched for a tool call as the first is
chat_summary_Extracts(replies) ==
    /\ fg_pc = "chat2"
    /\ \/ /\ fg_pc' = Uncaught
          /\ UNCHANGED <<conversation_history, last_call, tool_call>>
       \/ \E t \in replies :
            \E c \in {ToolCallExtractor(t)} :
              /\ last_call' = [op |-> "summary", ai_response |-> t,
                               turn |-> turn_no]
              /\ IF c.kind = "none"
                   THEN /\ conversation_history' =
                             Append(conversation_history,
                                    Turn("assistant", "summary", turn_no))
                        /\ fg_pc' = "tts"
                        /\ UNCHANGED tool_call
                   ELSE /\ tool_call' = CallOf(c)
                        /\ fg_pc' = "dispatch"
                        /\ UNCHANGED conversation_history
    /\ UNCHANGED <<fgFrame, is_recording, record_lock, storeVars,
                   last_email_list, turn_no, out_stream, recVars, fg_left>>

\* the second chat-completion call with the text of its reply: the call
\* raises, or it returns one of replies, which is appended and returned as
\* it is
chat_summary(replies) ==
    /\ fg_pc = "chat2"
    /\ \/ /\ fg_pc' = Uncaught
          /\ UNCHANGED <<conversation_history, last_call>>
       \/ \E t \in replies :
            /\ last_call' = [op |-> "summary", ai_response |-> t,
                             turn |-> turn_no]
            /\ conversation_history' =
                 Append(conversation_history,
                        Turn("assistant", "summary", turn_no))
            /\ fg_pc' = "tts"
    /\ UNCHANGED <<fgFrame, is_recording, record_lock, storeVars,
                   last_email_list, tool_call, turn_no, out_stream, recVars,
                   fg_left>>

NextExtract ==
    \/ utterance(MaxToolTurns)
    \/ get_ai_response_begin
    \/ chat_reply(Replies)
    \/ dispatch(ConvExts)
    \/ chat_summary(SummaryReplies)
    \/ speak
    \/ cleanup

SpecExtract == InitHistory /\ [][NextExtract]_vars

\* the reply "Here you go {...} thanks"
ExampleReply ==
    <<"H", "e", "r", "e", " ", "y", "o", "u", " ", "g", "o", " ", "{", "\"",
      "t", "o", "o", "l", "\"", ":", "\"", "g", "m", "a", "i", "l", "_",
      "l", "i", "s", "t", "\"", ",", "\"", "p", "a", "r", "a", "m", "s",
      "\"", ":", "{", "\"", "q", "u", "e", "r", "y", "\"", ":", "\"", "i",
      "s", ":", "u", "n", "r", "e", "a", "d", "\"", ",", "\"", "m", "a",
      "x", "_", "r", "e", "s", "u", "l", "t", "s", "\"", ":", "3", "}", "}",
      " ", "t", "h", "a", "n", "k", "s">>

\* C20: from a reply made of prose, the object
\* {"tool":"gmail_list","params":{"query":"is:unread","max_results":3}}
\* and prose, the extractor yields the call of gmail_list with query
\* is:unread and max_results 3, and the call is dispatched; from prose
\* with no object in it, it yields no tool call.
C20_ExtractsExample ==
    last_call.op = "extract" =>
      /\ last_call.ai_response \in ObjectReplies
           => /\ last_call.tool_call = ListUnreadCall
              /\ fg_pc = "dispatch"
              /\ tool_call.tool = "gmail_list"
      /\ last_call.ai_response \in PlainReplies
           => /\ last_call.tool_call = PNone
              /\ fg_pc # "dispatch"

\* the example reply has been read and its call waits for dispatch
C20_Witness ==
    /\ last_call.op = "extract"
    /\ last_call.ai_response = ExampleReply
    /\ last_call.tool_call = ListUnreadCall
    /\ fg_pc = "dispatch"

\* C21: from every reply that holds one well-formed object
\* {"tool": name, "params": {...}} between prose, the extractor yields
\* exactly that object: with empty params, with a nested object in params,
\* and with a brace character inside a string value of params.
C21_ExtractsWellFormed ==
    last_call.op = "extract" =>
      \A o \in ToolObjects :
        (\E p \in ProsePieces, s \in ProsePieces :
            last_call.ai_response = p \o o \o s)
          => /\ json_loads(o).ok
             /\ last_call.tool_call = json_loads(o).val

\* a reply whose object holds a closing brace in a string value has been
\* read and no tool call came out of it
C21_CloseBraceLost ==
    /\ last_call.op = "extract"
    /\ \E p \in ProsePieces, s \in ProsePieces :
          last_call.ai_response = p \o ObjCloseBrace \o s
    /\ json_loads(ObjCloseBrace).ok
    /\ last_call.tool_call = PNone
    /\ fg_pc = "tts"

\* the extraction of the current utterance found no tool call
NoToolCallFound ==
    /\ last_call.op = "extract"
    /\ last_call.turn = turn_no
    /\ last_call.tool_call = PNone

\* C22: when no stage yields an object that parses and holds a tool name,
\* nothing is raised, no tool is dispatched and no second chat call is
\* made: the foreground goes on to speak the first reply, which is the
\* last turn of the history and the only reply kept for the utterance.
C22_NoCallIsPlainAnswer ==
    NoToolCallFound =>
      /\ fg_pc \in {"tts", "main", "converse"}
      /\ conversation_history # <<>>
      /\ LastTurns(conversation_history, 1) =
           <<Turn("assistant", "reply", turn_no)>>
      /\ Cardinality(RepliesOf(conversation_history, turn_no)) = 1
      /\ \A i \in 1..Len(conversation_history) :
           conversation_history[i].n = turn_no
             => conversation_history[i].tag \in {"utterance", "reply"}

\* a reply with a broken object has been read and is about to be spoken
C22_Witness ==
    /\ NoToolCallFound
    /\ last_call.ai_response \in BrokenReplies
    /\ fg_pc = "tts"


(***************************************************************************)
(* The alarm store and its durable record.                                 *)
(***************************************************************************)
\* C23: after every alarm_set or alarm_delete that changes the alarm
\* list, the durable record holds the alarm list and the next unused id
\* of the memory, also when the write fails.
C23_RecordFollowsList ==
    [][alarms' # alarms => alarm_file' = Store(alarms', alarm_next_id')]_vars

\* alarm_set has reported success and the durable record is not the
\* alarm list of the memory
C23_RecordBehind ==
    /\ last_call.op = "execute_tool"
    /\ last_call.call.tool = "alarm_set"
    /\ last_call.result = Str(TRUE, "alarm set")
    /\ alarm_file # Store(alarms, alarm_next_id)

\* the text s denotes a time of day: an hour 0..23 and a minute 0..59
IsTimeOfDay(s) ==
    /\ Len(Split(s, ":")) = 2
    /\ ParseInt(Split(s, ":")[1]).ok
    /\ ParseInt(Split(s, ":")[1]).val \in 0..23
    /\ ParseInt(Split(s, ":")[2]).ok
    /\ ParseInt(Split(s, ":")[2]).val \in 0..59

NotificationFailed ==
    /\ al_alarm = NoAlarm
    /\ fired_tick \ (spoken \cup skipped) # {}

\* the step in which text_to_speech or play_audio raises
NotificationFails ==
    \/ al_pc = "tts" /\ al_pc' \notin {"tts", "play_open"}
    \/ al_pc = "play_open" /\ al_pc' \notin {"play_open", "play"}

\* C25: a failure while producing or playing a notification leaves the
\* scheduler running: the failing step releases the mutex and goes on with
\* the loop over the alarms, it neither stops the thread nor clears the
\* keep-running flag nor touches the record of triggered alarms, and the
\* thread then reaches its next tick (unless the process has ended).
C25_FailureKeepsScheduler ==
    /\ [][NotificationFails =>
            /\ al_pc' = "loop"
            /\ record_lock' = "free"
            /\ running' = running
            /\ last_triggered' = last_triggered
            /\ alarms' = alarms
            /\ out_stream' = out_stream]_vars
    /\ (NotificationFailed ~> (al_pc = "tick" \/ ~Alive))

\* after a failed notification the scheduler has begun a further pass over
\* the alarms
C25_Witness ==
    /\ NotificationFailed
    /\ running
    /\ al_pc = "loop"
    /\ al_idx = 1

(***************************************************************************)
(* SpecTurn: whole turns of the foreground, from the capture to the        *)
(* playback, whose chat replies set and delete alarms.                     *)
(***************************************************************************)
MaxTurnTurns == 3

\* the tool calls the chat service may embed in a run of SpecTurn
TurnCalls ==
    { [BaseCall("alarm_set") EXCEPT !.time = PStr(T0700)],
      [BaseCall("alarm_set") EXCEPT !.time = PStr(T2359)],
      [BaseCall("alarm_set") EXCEPT !.time = PStr(T2400)],
      [BaseCall("alarm_delete") EXCEPT !.alarm_id = PInt(1)] }

\* no alarm file at startup: load_alarms leaves the list empty, next id 1
InitTurn ==
    /\ InitCommon
    /\ use_button \in BOOLEAN
    /\ gmail_service = TRUE
    /\ alarms = <<>>
    /\ alarm_next_id = 1
    /\ alarm_file = Store(alarms, alarm_next_id)

\* the texts the transcription may return
Transcripts ==
    { <<>>, <<" ">>, <<" ", "\n">>, <<"\t", " ", " ">>,
      <<"h", "i">>, <<" ", "h", "i", " ", "\n">> }

\* mutant: only the empty text is taken for no text
IsBlank_EmptyOnly(text) == text = <<>>

\* "not text or text.strip() == ''"
IsBlank(text) ==
    \/ text = <<>>
    \/ \A i \in 1..Len(text) : text[i] \in Whitespace

\* process_voice: transcribe_audio with the text it returns, and the
\* empty-text check
transcribe_text(texts) ==
    /\ fg_pc = "transcribe"
    /\ \/ /\ fg_pc' = Uncaught
          /\ last_call' = [op |-> "transcribe_raise"]
       \/ \E t \in texts :
            /\ last_call' = [op |-> "transcribe", text |-> t]
            /\ fg_pc' = IF IsBlank(t) THEN "main" ELSE "converse"
    /\ UNCHANGED <<fgFrame, is_recording, record_lock, storeVars, convVars,
                   out_stream, recVars, fg_left>>

NextTurn ==
    \/ signal_handler
    \/ ButtonChange
    \/ main_loop(MaxTurnTurns)
    \/ record_open
    \/ record_set_flag
    \/ record_hold_loop
    \/ record_clear_flag
    \/ record_hold_finish
    \/ record_auto_loop
    \/ record_auto_finish
    \/ transcribe_text(Transcripts)
    \/ get_ai_response_begin
    \/ chat_first(TurnCalls)
    \/ dispatch(AlarmExts)
    \/ chat_second
    \/ text_to_speech
    \/ play_open
    \/ play_write
    \/ cleanup

SpecTurn == InitTurn /\ [][NextTurn]_vars

\* the newest entry of the conversation history
Newest(h) == h[Len(h)]

\* the capture function is about to return a buffer (not None)
CaptureYieldsBuffer ==
    \/ fg_pc = "rec_close" /\ HoldResult(frames) = "buffer"
    \/ fg_pc = "auto_close" /\ AutoResult(has_sound) = "buffer"

\* execute_tool runs alarm_set with a time of day
SetsAlarm ==
    /\ fg_pc = "dispatch"
    /\ FgStep
    /\ tool_call.tool = "alarm_set"
    /\ tool_call.time \in {PStr(T0700), PStr(T2359)}

\* the order of the events of a turn: each event is reached from the one
\* before it only; fresh says which stores the alarm_set call starts from
TurnOrder(fresh) ==
    /\ (FgStep /\ fg_pc' = "transcribe") => CaptureYieldsBuffer
    /\ (FgStep /\ fg_pc' = "converse") => fg_pc = "transcribe"
    /\ (FgStep /\ fg_pc' = "chat1") =>
          /\ fg_pc = "converse"
          /\ Newest(conversation_history') =
                Turn("user", "utterance", turn_no')
    /\ (FgStep /\ fg_pc' = "dispatch") => fg_pc = "chat1"
    /\ (SetsAlarm /\ fresh) =>
          /\ alarms' = <<Alarm(1, tool_call.time.s, TRUE)>>
          /\ fg_pc' = "chat2"
    /\ (FgStep /\ fg_pc' = "chat2") =>
          /\ fg_pc = "dispatch"
          /\ last_call'.op = "execute_tool"
          /\ last_call'.call = tool_call
          /\ Newest(conversation_history') =
                Turn("user", "tool_result", turn_no)
    /\ (FgStep /\ fg_pc \in {"dispatch", "chat2"}) =>
          \/ fg_pc' = Uncaught
          \/ fg_pc = "dispatch" /\ fg_pc' = "chat2"
          \/ /\ fg_pc = "chat2"
             /\ fg_pc' = "tts"
             /\ Newest(conversation_history') =
                   Turn("assistant", "summary", turn_no)
    /\ (FgStep /\ fg_pc' = "tts") => fg_pc \in {"chat1", "chat2"}
    /\ (FgStep /\ fg_pc' = "play_open") => fg_pc = "tts"
    /\ (FgStep /\ fg_pc' = "play") =>
          (fg_pc = "play_open" /\ "fg" \in out_stream')
    /\ fg_pc \in {"tts", "play_open", "play"} =>
          conversation_history' = conversation_history

\* C26 (as stated): in a turn whose first chat reply embeds an alarm_set
\* call, starting from an empty list of alarms, the events occur in the
\* order capture with a buffer, transcription, first chat call, dispatch
\* that creates the alarm with id 1 and the requested time, second chat
\* call whose request ends with the tool result, speech synthesis of the
\* second reply, playback.
C26_TurnOrderFromEmptyList ==
    [][TurnOrder(alarms = <<>>)]_vars

\* C26 (amended): the same order of events, the alarm getting id 1 when the
\* store is the one of a first start: no alarm and next unused id 1.  (An
\* emptied store keeps its next unused id, which the new alarm gets.)
C26_TurnOrderFromFreshStore ==
    [][TurnOrder(alarms = <<>> /\ alarm_next_id = 1)]_vars

\* the playback of the second reply of a turn that created alarm 1 in the
\* fresh store
C26_Witness ==
    /\ fg_pc = "play"
    /\ turn_no = 1
    /\ last_call.op = "execute_tool"
    /\ last_call.call.tool = "alarm_set"
    /\ alarms = <<Alarm(1, T0700, TRUE)>>
    /\ Newest(conversation_history) = Turn("assistant", "summary", 1)

(***************************************************************************)
(* The end of the process.                                                 *)
(***************************************************************************)

\* the foreground is inside a conversation (process_voice has been called)
InTurn ==
    fg_pc \notin {"main", "cleanup", "terminated"}

\* C27: whenever an uncaught error escapes the foreground's loop (the
\* foreground leaves a turn while the keep-running flag is true, or leaves
\* it for the cleanup step), the process runs the cleanup step before it
\* ends, and the cleanup step releases the audio device: the process ends
\* by the cleanup step only, no stream is open afterwards, and the cleanup
\* step, once reached, is taken.  The same step is reached and taken after
\* a shutdown signal.
C27_CleanupBeforeEnd ==
    /\ [][ /\ (InTurn /\ FgStep /\ ~InTurn') => fg_pc' \in {"main", "cleanup"}
           /\ (fg_pc # "terminated" /\ fg_pc' = "terminated")
                => (fg_pc = "cleanup" /\ out_stream' = {})
           /\ fg_pc = "terminated" => out_stream' = {} ]_vars
    /\ (fg_pc = "cleanup" ~> (fg_pc = "terminated" /\ out_stream = {}))
    /\ (~running ~> (fg_pc = "terminated" /\ out_stream = {}))

\* the process has ended through the cleanup step after an error: no
\* shutdown signal was received
C27_Witness ==
    /\ fg_pc = "terminated"
    /\ running
    /\ out_stream = {}
    /\ turn_no > 0

(***************************************************************************)
(* Hold-to-talk: the notification and the capture of chunks.               *)
(***************************************************************************)

\* C28: under hold-to-talk the notification (speech synthesis and playback
\* by the alarm thread) and the capture of chunks never overlap: the flag
\* is true while chunks are read and no notification is in progress while
\* it is true; the alarm thread holds the mutex from its check of the flag
\* to the end of the playback; the capture begins (the flag is set) only
\* when the mutex is free; and a notification whose check finds the flag
\* true is left out.
C28_NoOverlapHoldToTalk ==
    /\ [](use_button =>
            /\ ~(fg_pc = "rec_loop" /\ Notifying)
            /\ ~(fg_pc = "rec_loop" /\ "alarm" \in out_stream)
            /\ fg_pc = "rec_loop" => is_recording
            /\ is_recording => ~Notifying
            /\ Notifying <=> record_lock = "alarm")
    /\ [][use_button =>
            /\ (fg_pc = "rec_lock" /\ FgStep)
                  => (record_lock = "free" /\ ~Notifying /\ is_recording')
            /\ (al_pc = "lock" /\ is_recording /\ AlarmStep)
                  => (al_pc' = "loop" /\ out_stream' = out_stream)
            /\ (al_pc = "lock" /\ al_pc' = "tts") => ~is_recording ]_vars

\* a capture waits for the mutex while the notification is played
C28_Witness ==
    /\ use_button
    /\ fg_pc = "rec_lock"
    /\ al_pc = "play"
    /\ record_lock = "alarm"
    /\ "alarm" \in out_stream

(***************************************************************************)
(* The two capture loops.                                                  *)
(***************************************************************************)

\* the foreground is in record_audio_while_pressed, from its loop to its
\* return
InHoldFunction == fg_pc \in {"rec_loop", "rec_unlock", "rec_close"}

\* C29: in a hold-to-talk capture the button is looked at before every
\* chunk read: a chunk is appended only in an iteration that found the
\* button pressed (and the count below the maximum); an iteration that
\* finds the button released leaves the loop with the chunks as they are,
\* and none is appended after the loop; the number of chunks never exceeds
\* the maximum.
C29_HoldChunks ==
    /\ [](InHoldFunction => frames <= HoldMaxChunks)
    /\ [][ /\ (InHoldFunction /\ frames' > frames)
                => /\ fg_pc = "rec_loop"
                   /\ button_pressed
                   /\ frames < HoldMaxChunks
                   /\ frames' = frames + 1
           /\ (fg_pc = "rec_loop" /\ ~button_pressed
                 /\ <<fg_pc, frames, elapsed>>' # <<fg_pc, frames, elapsed>>)
                => (fg_pc' = "rec_unlock" /\ frames' = frames)
           /\ (fg_pc = "rec_unlock" /\ FgStep)
                => (fg_pc' = "rec_close" /\ frames' = frames) ]_vars

\* the loop has been left at the maximum number of chunks, the button still
\* held
C29_Witness ==
    /\ fg_pc = "rec_unlock"
    /\ frames = HoldMaxChunks
    /\ button_pressed
    /\ running
    /\ elapsed <= RecordingTimeout

\* an iteration of record_audio_auto's loop that reads a chunk
AutoChunk == fg_pc = "auto_loop" /\ frames' = frames + 1

\* an iteration of record_audio_auto's loop that ends the loop
AutoExit == fg_pc = "auto_loop" /\ fg_pc' = "auto_close"

\* C30: in an auto capture the loop never exits on silence before a chunk
\* has exceeded the volume threshold; a loud chunk sets the count of
\* below-threshold chunks to zero and a quiet one adds one to it; once
\* speech has been observed the loop exits at a chunk exactly when the
\* count first exceeds the silence threshold; it exits at the cap of
\* chunks whether or not speech was observed (its other exits are the
\* shutdown flag and an exception of the read); the function returns None
\* exactly when no chunk exceeded the threshold.
C30_AutoCapture ==
    /\ [](fg_pc \in {"auto_loop", "auto_close"} => frames <= AutoMaxChunks)
    /\ [](fg_pc = "auto_loop" =>
            (has_sound => silent_chunks <= SilenceChunksThreshold))
    /\ [][ /\ (fg_pc = "auto_loop" /\ frames' # frames) => AutoChunk
           /\ AutoChunk =>
                /\ running
                /\ frames < AutoMaxChunks
                /\ \/ has_sound' /\ silent_chunks' = 0
                   \/ /\ has_sound' = has_sound
                      /\ silent_chunks' = silent_chunks + 1
                /\ fg_pc' = "auto_close" <=>
                      (has_sound' /\
                         silent_chunks' = SilenceChunksThreshold + 1)
                /\ fg_pc' \in {"auto_loop", "auto_close"}
           /\ (AutoExit /\ ~AutoChunk) =>
                /\ frames >= AutoMaxChunks \/ ~running
                /\ UNCHANGED <<has_sound, silent_chunks>>
           /\ (AutoExit /\ ~has_sound') =>
                (~AutoChunk /\ (frames >= AutoMaxChunks \/ ~running))
           /\ (fg_pc = "auto_loop" /\ frames >= AutoMaxChunks /\ FgStep)
                => AutoExit
           /\ (fg_pc = "auto_close" /\ FgStep) =>
                /\ fg_pc' = "main" <=> ~has_sound
                /\ fg_pc' = "transcribe" <=> has_sound ]_vars

\* the cap has ended a capture in which no chunk was loud, the quiet
\* chunks being more than the silence threshold
C30_Witness ==
    /\ fg_pc = "auto_close"
    /\ running
    /\ ~has_sound
    /\ frames = AutoMaxChunks
    /\ silent_chunks > SilenceChunksThreshold

(***************************************************************************)
(* The history sent with a chat request.                                   *)
(***************************************************************************)

\* the step that builds the request of the first chat-completion call
FirstRequest == fg_pc = "converse" /\ fg_pc' = "chat1"

\* C31: the history sent with the first chat-completion call of an
\* utterance has at most 10 turns: the new user turn last, before it the
\* most recent turns of the history in their order; from the 12th
\* utterance on (11 exchanges before it) no turn of the first exchange is
\* in it.
C31_FirstRequestHistory ==
    [][FirstRequest =>
         LET h == conversation_history
             sent == conversation_history'
             n == Len(sent)
         IN  /\ n <= HistoryCap
             /\ n = IF Len(h) + 1 > HistoryCap THEN HistoryCap
                    ELSE Len(h) + 1
             /\ sent[n] = Turn("user", "utterance", turn_no')
             /\ \A i \in 1..(n - 1) : sent[i] = h[Len(h) - (n - 1) + i]
             /\ turn_no' > HistoryCap + 1 =>
                   \A i \in 1..n : sent[i].n # 1 ]_vars

\* the request of the 12th utterance, after exchanges with tool calls
C31_Witness ==
    /\ fg_pc = "chat1"
    /\ turn_no = HistoryCap + 2
    /\ Len(conversation_history) = HistoryCap
    /\ \E i \in 1..Len(conversation_history) :
          conversation_history[i].tag = "tool_result"

(***************************************************************************)
(* The destination of a reply.                                             *)
(***************************************************************************)

\* the header a reply goes to by the rule "Reply-To, else From"
ReplyHeader(o) == IF o.reply_to # Absent THEN o.reply_to ELSE o.from

\* C32: a reply that is sent goes to the address of the original
\* message's Reply-To header when it has one and of its From header
\* otherwise, also when the message was selected by its index in the
\* cache.
C32_ReplyToThenFrom ==
    [][ (Calls("gmail_reply") /\ SentTo # "")
          => /\ last_call'.resolved.kind \in {"found", "raw"}
             /\ Known(last_call'.resolved.id)
             /\ SentTo = extract_email_address(
                            ReplyHeader(Lookup(last_call'.resolved.id)))
      ]_vars

\* a reply to the message at index 2, which has a Reply-To header, has gone
\* to the address of its From header kept in the cache
C32_RepliedToFrom ==
    /\ last_call.op = "execute_tool"
    /\ last_call.call.tool = "gmail_reply"
    /\ last_call.call.message_id = PInt(2)
    /\ last_call.resolved.id = M2.id
    /\ M2.reply_to # Absent
    /\ last_call.result.dest = extract_email_address(M2.from)
    /\ last_call.result.dest # extract_email_address(M2.reply_to)

(***************************************************************************)
(* The mutex.                                                              *)
(***************************************************************************)

\* the foreground waits at "with record_lock:" before the capture loop
WaitsForMutex == fg_pc = "rec_lock" /\ record_lock # "free"

\* C33: no deadlock between the two threads: the mutex is held only by the
\* alarm thread while it produces a notification (the foreground's own
\* blocks are left at once), so a foreground that waits for it waits for a
\* thread that can go on; and whenever the foreground is at the block that
\* sets the recording flag it gets the mutex and goes on to the capture
\* loop, the speech and playback calls of the scheduler returning.
C33_NoDeadlock ==
    /\ [](record_lock \in {"free", "alarm"})
    /\ [](WaitsForMutex => (Notifying /\ Alive))
    /\ [][(fg_pc = "rec_lock" /\ FgStep)
            => (fg_pc' = "rec_loop" /\ is_recording'
                  /\ record_lock' = "free")]_vars
    /\ (fg_pc = "rec_lock" ~> fg_pc = "rec_loop")

\* the foreground waits for the mutex while the notification is
\* synthesized
C33_Witness ==
    /\ WaitsForMutex
    /\ al_pc = "tts"
    /\ running
    /\ button_pressed

(***************************************************************************)
(* An accepted alarm is spoken.                                            *)
(***************************************************************************)

\* C34: an enabled alarm of the list is spoken at some tick of a minute
\* whose HH:MM equals its time, provided the scheduler ticks in that minute
\* while no recording is in progress: when the scheduler comes to the
\* alarm at such a tick, the alarm has been spoken in this minute or its
\* notification is begun now.
C34_SpokenInMatchingMinute ==
    [][ (TimeMatches /\ ~is_recording /\ AlarmStep)
          => \/ alarms[al_idx].id \in spoken
             \/ al_pc' = "lock" ]_vars

\* a further tick of the matching minute begins while nothing is recorded:
\* the first alarm was left out at an earlier tick of this minute, during
\* a recording, and its key keeps it from firing now
C34_LostForTheMinute ==
    /\ al_pc = "loop"
    /\ al_idx = 1
    /\ TimeMatches
    /\ alarms[1].id \in skipped \ spoken
    /\ TriggerKey(alarms[1], al_now) \in last_triggered
    /\ ~is_recording
    /\ fg_pc \notin {"rec_lock", "rec_loop", "rec_unlock"}

(***************************************************************************)
(* One tool operation and two chat-completion calls at most.               *)
(***************************************************************************)

\* the tool results an utterance has put into the history
ToolResultsOf(h, n) ==
    {i \in 1..Len(h) : h[i].n = n /\ h[i].tag = "tool_result"}

\* C35: for each utterance at most one tool operation is dispatched and
\* at most two chat-completion calls are made: the first call is made once
\* per utterance, a dispatch follows the first call only and is followed by
\* the second call only, the second reply is appended and spoken whatever
\* it holds (nothing is extracted from it or executed), and from a reply
\* that holds several objects one call comes out: the first object that
\* the first pattern matches.
C35_OneToolTwoCalls ==
    /\ [](\A n \in 1..turn_no :
            /\ Cardinality(ToolResultsOf(conversation_history, n)) <= 1
            /\ Cardinality(RepliesOf(conversation_history, n)) <= 2)
    /\ [][ /\ (FgStep /\ fg_pc' = "chat1")
                => (fg_pc = "converse" /\ turn_no' = turn_no + 1)
           /\ (FgStep /\ fg_pc' = "dispatch") => fg_pc = "chat1"
           /\ (FgStep /\ fg_pc = "dispatch") => fg_pc' \in {"chat2", Uncaught}
           /\ (FgStep /\ fg_pc' = "chat2") => fg_pc = "dispatch"
           /\ (FgStep /\ fg_pc = "chat2")
                => /\ fg_pc' \in {"tts", Uncaught}
                   /\ UNCHANGED <<tool_call, storeVars, last_email_list>>
           /\ (FgStep /\ fg_pc = "chat1"
                 /\ last_call'.op = "extract"
                 /\ last_call'.ai_response \in SeveralObjects)
                => /\ fg_pc' = "dispatch"
                   /\ last_call'.tool_call =
                        IF last_call'.ai_response = TwoObjectsOther
                          THEN ListUnreadCall
                          ELSE json_loads(ObjEmptyParams).val
                   /\ tool_call' = CallOf(last_call'.tool_call) ]_vars

\* the second reply of an utterance held tool calls and is about to be
\* spoken: one tool result is in the history
C35_Witness ==
    /\ fg_pc = "tts"
    /\ last_call.op = "summary"
    /\ last_call.ai_response = TwoObjectsOther
    /\ Cardinality(ToolResultsOf(conversation_history, turn_no)) = 1

(***************************************************************************)
(* The roles of the turns of the history.                                  *)
(***************************************************************************)

\* neighbouring turns have different roles
Alternates(h) == \A i \in 1..(Len(h) - 1) : h[i].role # h[i + 1].role

\* C36: at every chat-completion request the history sent ends with a user
\* turn (the utterance at the first request, the tool result at the
\* second), and in the history as it stands between utterances user and
\* assistant turns strictly alternate and the last turn is the
\* assistant's, with or without tool calls and after the cut to 10 turns.
\* (An exception in a turn ends the foreground loop, so every turn that is
\* followed by another one has completed.)
C36_RolesAlternate ==
    /\ fg_pc \in {"chat1", "chat2"} =>
          /\ conversation_history # <<>>
          /\ Newest(conversation_history).role = "user"
          /\ Alternates(conversation_history)
    /\ fg_pc = "main" =>
          /\ Alternates(conversation_history)
          /\ conversation_history # <<>> =>
                Newest(conversation_history).role = "assistant"

\* between two utterances, after the cut: the history begins with a turn
\* of the assistant and holds a tool result
C36_Witness ==
    /\ fg_pc = "main"
    /\ Len(conversation_history) > HistoryCap
    /\ conversation_history[1].role = "assistant"
    /\ \E i \in 1..Len(conversation_history) :
          conversation_history[i].tag = "tool_result"
    /\ \E i \in 1..Len(conversation_history) :
          conversation_history[i].tag = "reply"

(***************************************************************************)
(* The foreground after the shutdown signal.                               *)
(***************************************************************************)

\* C37: once the keep-running flag is false the foreground dispatches no
\* tool operation (the alarm list, the next unused id and the durable
\* record stay as they are) and starts no new turn.
C37_NothingAfterShutdown ==
    [][ (~running /\ FgStep)
          => /\ fg_pc # "dispatch"
             /\ UNCHANGED <<alarms, alarm_next_id, alarm_file>>
             /\ fg_pc' # "rec_open" ]_vars

\* the flag is false and the turn has gone on to the step that executes
\* alarm_set
C37_DispatchAfterShutdown ==
    /\ ~running
    /\ fg_pc = "dispatch"
    /\ tool_call.tool = "alarm_set"
    /\ tool_call.time = PStr(T0700)
    /\ alarms = <<>>

(***************************************************************************)
(* The recording flag outside the capture.                                 *)
(***************************************************************************)

\* the foreground is between the block that sets the recording flag and
\* the block that clears it
InsideHoldLoop == fg_pc \in {"rec_loop", "rec_read", "rec_unlock"}

\* C38: whenever the foreground is not inside the hold-to-talk capture
\* loop (up to the block that clears the flag) the recording flag is
\* false: every way out of the loop clears it.
C38_FlagFalseOutsideCapture == ~InsideHoldLoop => ~is_recording

\* the foreground has ended after a read of the capture raised, the flag
\* still true
C38_FlagLeftTrue ==
    /\ fg_pc = "terminated"
    /\ is_recording
    /\ running

(***************************************************************************)
(* A turn without a recording or without a text.                           *)
(***************************************************************************)

\* what a turn that ends early leaves as it is
EarlyReturnFrame ==
    UNCHANGED <<conversation_history, alarms, alarm_next_id, alarm_file,
                last_email_list, tool_call, turn_no, out_stream, fg_left>>

\* the text holds nothing but white space
OnlyWhiteSpace(t) ==
    {i \in 1..Len(t) : t[i] \notin {" ", "\t", "\n", "\r", "\f"}} = {}

\* C39: a turn whose capture returns None, or whose transcription is empty
\* or only white space, ends there: the foreground is back at the top of
\* its loop with the conversation history, the alarm list, the next unused
\* id, the durable record and the mail cache as they were; no chat call,
\* no dispatch, no speech synthesis and no playback is made, these being
\* reached through a transcription with a text only.
C39_EarlyReturnFrame ==
    [][ /\ (fg_pc = "rec_close" /\ HoldResult(frames) = "None" /\ FgStep)
            => (fg_pc' = "main" /\ EarlyReturnFrame)
        /\ (fg_pc = "auto_close" /\ AutoResult(has_sound) = "None"
              /\ FgStep)
            => (fg_pc' = "main" /\ EarlyReturnFrame)
        /\ (fg_pc = "transcribe" /\ FgStep
              /\ last_call'.op = "transcribe"
              /\ OnlyWhiteSpace(last_call'.text))
            => (fg_pc' = "main" /\ EarlyReturnFrame)
        /\ (FgStep /\ fg_pc' = "converse")
            => /\ fg_pc = "transcribe"
               /\ last_call'.op = "transcribe"
               /\ ~OnlyWhiteSpace(last_call'.text)
        /\ (FgStep /\ fg_pc' = "chat1") => fg_pc = "converse"
        /\ (FgStep /\ fg_pc' = "dispatch") => fg_pc = "chat1"
        /\ (FgStep /\ fg_pc' = "chat2") => fg_pc = "dispatch"
        /\ (FgStep /\ fg_pc' = "tts") => fg_pc \in {"chat1", "chat2"}
        /\ (FgStep /\ fg_pc' = "play_open") => fg_pc = "tts"
        /\ (FgStep /\ fg_pc' = "play") => fg_pc = "play_open" ]_vars

\* a turn has ended at a transcription of white space, after a turn that
\* created an alarm
C39_Witness ==
    /\ fg_pc = "main"
    /\ running
    /\ last_call.op = "transcribe"
    /\ last_call.text = <<" ", "\n">>
    /\ turn_no = 1
    /\ Len(alarms) = 1
    /\ Len(conversation_history) = 4

====
